---- MODULE Spec2Model ----
(***************************************************************************)
(* Provider layer of the `ask` terminal assistant: the provider clients    *)
(* (OpenAI-compatible, Anthropic, Gemini, Ollama), the transport helper    *)
(* doJSON and the content extraction, as a state machine of one client     *)
(* serving one call at a time against a nondeterministic HTTP server.      *)
(*                                                                         *)
(* Strings are sequences of characters.  A character is a one-letter       *)
(* string or an atom standing for a fixed run of letters ("models/",       *)
(* "response_format", ...) that the code matches as a whole.               *)
(***************************************************************************)
EXTENDS Integers, Sequences, FiniteSets, TLC

VARIABLES
    opts,       \* the ClientOptions the client was constructed from
    client,     \* the constructed client (fields fixed at construction)
    pc,         \* position of the current call: idle, wait1, wait2, done
    op,         \* the operation in progress: none, Ask, ListModels
    req,        \* the AskRequest of the current Ask
    sent,       \* HTTP requests issued by the current call, in order
    recv,       \* HTTP outcomes received by the current call, in order
    inflight,   \* number of HTTP requests sent and not yet answered
    result,     \* what the call returned (meaningful when pc = "done")
    calls,      \* the calls of concurrent callers on one shared client
    lookup,     \* a provider name given to the registry and what it resolved to
    cli,        \* one run of the command line: arguments, options, prompt, shell
    conf,       \* a configuration, the operations applied to it and its file
    timed,      \* the clock of one Ask call of the command line and its timers
    reply,      \* a model reply given to assistant.Parse and what Parse returned
    spin        \* the spinner: its goroutine, the callers of stop and what was written

vars == <<opts, client, pc, op, req, sent, recv, inflight, result, calls, lookup, cli, conf, timed, reply, spin>>

----------------------------------------------------------------------------
(* Bounds *)

MaxParts   == 2     \* most fragments, blocks or parts in one reply
MaxCatalog == 2     \* most entries in one model catalog

----------------------------------------------------------------------------
(* Strings *)

SP  == " "
NL  == "\n"
PFX == "models/"

Whitespace == {SP, NL}

StrOver(alphabet, n) == UNION {[1..k -> alphabet] : k \in 0..n}

RECURSIVE TrimLeft(_)
TrimLeft(s) ==
    IF s # <<>> /\ Head(s) \in Whitespace THEN TrimLeft(Tail(s)) ELSE s

RECURSIVE TrimRight(_)
TrimRight(s) ==
    IF s # <<>> /\ s[Len(s)] \in Whitespace
    THEN TrimRight(SubSeq(s, 1, Len(s) - 1))
    ELSE s

\* strings.TrimSpace
TrimSpace(s) == TrimRight(TrimLeft(s))

\* strings.TrimPrefix(s, "models/"): removes one leading occurrence
TrimPrefix(s) == IF s # <<>> /\ Head(s) = PFX THEN Tail(s) ELSE s

\* strings.ToLower, character by character
LowerChar(c) ==
    CASE c = "RESPONSE_FORMAT"    -> "response_format"
      [] c = "responseMimeType"   -> "responsemimetype"
      [] c = "Response_Mime_Type" -> "response_mime_type"
      [] c = "generateContent"    -> "generatecontent"
      [] c = "GENERATECONTENT"    -> "generatecontent"
      [] c = "embedContent"       -> "embedcontent"
      [] c = "A"                  -> "a"
      [] c = "E"                  -> "e"
      [] c = "G"                  -> "g"
      [] c = "I"                  -> "i"
      [] c = "M"                  -> "m"
      [] c = "N"                  -> "n"
      [] c = "O"                  -> "o"
      [] OTHER                    -> c

ToLower(s) == [i \in 1..Len(s) |-> LowerChar(s[i])]

\* strings.Contains(s, c) for a needle that is one atom
Contains(s, c) == \E i \in 1..Len(s) : s[i] = c

\* strings.Join(parts, "\n")
RECURSIVE Join(_)
Join(parts) ==
    IF parts = <<>> THEN <<>>
    ELSE IF Len(parts) = 1 THEN parts[1]
    ELSE parts[1] \o <<NL>> \o Join(Tail(parts))

\* byte value of the first byte of a character, for Go's string comparison
Ord(c) ==
    CASE c = NL  -> 10
      [] c = SP  -> 32
      [] c = PFX -> 109
      [] c = "c" -> 99
      [] c = "e" -> 101
      [] c = "g" -> 103
      [] c = "h" -> 104
      [] c = "i" -> 105
      [] c = "l" -> 108
      [] c = "m" -> 109
      [] c = "n" -> 110
      [] c = "o" -> 111
      [] c = "p" -> 112
      [] c = "r" -> 114
      [] c = "t" -> 116
      [] c = "u" -> 117
      [] c = "x" -> 120
      [] c = "y" -> 121
      [] c = "z" -> 122
      [] OTHER   -> 97

\* Go's s < t on strings (bytewise lexicographic)
RECURSIVE StrLess(_, _)
StrLess(s, t) ==
    IF t = <<>> THEN FALSE
    ELSE IF s = <<>> THEN TRUE
    ELSE IF Head(s) = Head(t) THEN StrLess(Tail(s), Tail(t))
    ELSE Ord(Head(s)) < Ord(Head(t))

----------------------------------------------------------------------------
(* Inputs *)

\* ClientOptions.APIKey as the caller passes it
Keys == {<<>>, <<SP>>, <<SP, "k">>}

\* AskRequest.Model, .Question, .Prompt
Models    == {<<>>, <<SP>>, <<"x">>, <<PFX>>, <<SP, PFX, "x", SP>>, <<PFX, PFX, "x">>}
Questions == {<<>>, <<SP>>, <<"q">>}
Prompts   == {<<"p">>}

AskRequests ==
    [Model : Models, Prompt : Prompts, Question : Questions, ExpectJSON : BOOLEAN]

NoRequest == [Model |-> <<>>, Prompt |-> <<>>, Question |-> <<>>, ExpectJSON |-> FALSE]

\* reply text a provider may return
Texts == {<<>>, <<SP>>, <<"a">>, <<SP, "a">>, <<"a", NL>>, <<"a", SP, "a">>}

----------------------------------------------------------------------------
(* HTTP headers: a header set maps canonical names to values *)

\* textproto.CanonicalMIMEHeaderKey, as http.Header.Set applies it to a name
CanonChar(c) ==
    CASE c = "anthropic-version" -> "Anthropic-Version"
      [] c = "x-api-key"         -> "X-Api-Key"
      [] c = "x-goog-api-key"    -> "X-Goog-Api-Key"
      [] c = "authorization"     -> "Authorization"
      [] OTHER                   -> c

CanonicalMIMEHeaderKey(k) == [i \in 1..Len(k) |-> CanonChar(k[i])]

\* the header set of a request made by http.NewRequest
NoHeaders == [k \in {} |-> <<>>]

\* http.Header.Set(k, v)
HeaderSet(h, k, v) ==
    LET key == CanonicalMIMEHeaderKey(k)
    IN  [x \in DOMAIN h \cup {key} |-> IF x = key THEN v ELSE h[x]]

\* ClientOptions.Headers as the caller passes it: no header, a header named
\* like the Anthropic version header, a header with a blank value
HeaderMaps ==
    {NoHeaders,
     [k \in {<<"anthropic-version">>} |-> <<"2024-10-22">>],
     [k \in {<<"X-Title">>} |-> <<SP>>]}

----------------------------------------------------------------------------
(* Clients *)

\* the copy of opts.Headers every constructor but Ollama's makes, reading the
\* caller's map as it is at construction
copyHeaders(o) == o.Headers

\* clientHeaders reading the caller's map instead of the client's copy
clientHeaders_Aliased(c) == opts.Headers

\* c.headers as setHeaders reads it
clientHeaders(c) == c.headers

\* the loop of setHeaders over c.headers: entries with a blank name or value
\* are skipped, the others set on the request
RECURSIVE setCustomHeaders(_, _)
setCustomHeaders(h, custom) ==
    IF DOMAIN custom = {} THEN h
    ELSE LET k    == CHOOSE x \in DOMAIN custom : TRUE
             rest == [x \in DOMAIN custom \ {k} |-> custom[x]]
         IN  IF TrimSpace(k) = <<>> \/ TrimSpace(custom[k]) = <<>>
             THEN setCustomHeaders(h, rest)
             ELSE setCustomHeaders(HeaderSet(h, k, custom[k]), rest)

\* the provider names the code spells out, letter by letter
Anthropic  == <<"a", "n", "t", "h", "r", "o", "p", "i", "c">>
Gemini     == <<"g", "e", "m", "i", "n", "i">>
Ollama     == <<"o", "l", "l", "a", "m", "a">>
OpenAI     == <<"o", "p", "e", "n", "a", "i">>
OpenRouter == <<"o", "p", "e", "n", "r", "o", "u", "t", "e", "r">>

\* a custom provider's name
Proxy == <<"p", "r", "o", "x", "y">>

\* normalize returning the name trimmed, in the letter case given
normalize_KeepsCase(name) == TrimSpace(name)

normalize(name) == ToLower(TrimSpace(name))

\* newOpenAICompatibleClient: defaults for unset settings, the key stored trimmed
newOpenAICompatibleClient(settings, o) ==
    [kind          |-> "openai_compatible",
     name          |-> normalize(settings.Name),
     apiKey        |-> TrimSpace(o.APIKey),
     base          |-> <<o.BaseURL>>,
     modelsPath    |-> <<"/models">>,
     chatPath      |-> <<"/chat/completions">>,
     authHeader    |-> IF TrimSpace(settings.AuthHeader) = <<>>
                       THEN <<"Authorization">> ELSE settings.AuthHeader,
     authPrefix    |-> IF settings.AuthPrefix = <<>>
                       THEN <<"Bearer ">> ELSE settings.AuthPrefix,
     requireAPIKey |-> settings.RequireAPIKey,
     headers       |-> copyHeaders(o)]

OpenAICompatibleSettings(name, require) ==
    [Name |-> name, AuthHeader |-> <<>>, AuthPrefix |-> <<>>, RequireAPIKey |-> require]

newOpenAIClient(o) ==
    newOpenAICompatibleClient(OpenAICompatibleSettings(OpenAI, TRUE), o)

newOpenRouterClient(o) ==
    newOpenAICompatibleClient(OpenAICompatibleSettings(OpenRouter, TRUE), o)

newAnthropicClient(o) ==
    [kind |-> "anthropic", name |-> Anthropic, apiKey |-> TrimSpace(o.APIKey),
     base |-> <<o.BaseURL>>, headers |-> copyHeaders(o)]

newGeminiClient(o) ==
    [kind |-> "gemini", name |-> Gemini, apiKey |-> TrimSpace(o.APIKey),
     base |-> <<o.BaseURL>>, headers |-> copyHeaders(o)]

\* the Ollama client keeps no key and no headers
newOllamaClient(o) ==
    [kind |-> "ollama", name |-> Ollama, base |-> <<o.BaseURL>>]

\* sort.Strings: the strings of ss in ascending order
sortStrings(ss) ==
    CHOOSE r \in {[i \in 1..Len(ss) |-> ss[p[i]]] :
                     p \in {q \in [1..Len(ss) -> 1..Len(ss)] :
                               \A i, j \in 1..Len(ss) : q[i] = q[j] => i = j}} :
        \A i \in 1..(Len(r) - 1) : ~StrLess(r[i + 1], r[i])

\* SupportedProviders(): the built-in names, sorted
SupportedProviders == sortStrings(<<Anthropic, Gemini, Ollama, OpenAI, OpenRouter>>)

\* the nil Client returned along with an error
NoClient == [kind |-> "none"]

\* providers.New(name, opts): the client and the error it returns
New(name, o) ==
    LET n == normalize(name)
    IN  IF n = <<>>
        THEN [client |-> NoClient, err |-> <<"provider name is required">>]
        ELSE CASE n = OpenAI     -> [client |-> newOpenAIClient(o), err |-> <<>>]
               [] n = Anthropic  -> [client |-> newAnthropicClient(o), err |-> <<>>]
               [] n = Gemini     -> [client |-> newGeminiClient(o), err |-> <<>>]
               [] n = Ollama     -> [client |-> newOllamaClient(o), err |-> <<>>]
               [] n = OpenRouter -> [client |-> newOpenRouterClient(o), err |-> <<>>]
               [] OTHER          ->
                    [client |-> NoClient, err |-> <<"unsupported provider ">> \o n]

\* providers.NewOpenAICompatible for a custom provider
NewOpenAICompatible(settings, o) ==
    IF normalize(settings.Name) = <<>>
    THEN [client |-> NoClient, err |-> <<"provider name is required">>]
    ELSE IF TrimSpace(<<o.BaseURL>>) = <<>>
    THEN [client |-> NoClient, err |-> <<"base URL is required">>]
    ELSE [client |-> newOpenAICompatibleClient(settings, o), err |-> <<>>]

\* Client.Name()
Name(c) == c.name

ClientOptions == [APIKey : Keys, BaseURL : {"BASE"}, Headers : HeaderMaps]

\* the settings of a custom provider: the key required or optional with the
\* default auth header, or required with an auth header and prefix of its own
CustomSettings ==
    {OpenAICompatibleSettings(Proxy, r) : r \in BOOLEAN}
        \cup {[OpenAICompatibleSettings(Proxy, TRUE) EXCEPT
                   !.AuthHeader = <<"X-Key">>, !.AuthPrefix = <<"Token ">>]}

\* every client a caller can construct from the options o
Constructed(o) ==
    {New(SupportedProviders[i], o).client : i \in 1..Len(SupportedProviders)}
        \cup {NewOpenAICompatible(settings, o).client : settings \in CustomSettings}

\* openAICompatibleClient.requiresAPIKey
requiresAPIKey(c) == c.requireAPIKey

----------------------------------------------------------------------------
(* Errors: an error is its message; the empty message is Go's nil error *)

NoErr == <<>>

\* the spec's taxonomy (section 7) of an error message produced by the code
ErrKind(err) ==
    IF err = NoErr THEN "none"
    ELSE CASE Head(err) \in {"model is required", "question is required"}
                                                        -> "validation"
           [] Head(err) \in {"API key not configured for ",
                             "ANTHROPIC_API_KEY not configured",
                             "GEMINI_API_KEY not configured"} -> "configuration"
           [] Head(err) \in {"http request failed: ", "provider returned "}
                                                        -> "transport"
           [] Head(err) = "decode response JSON: "     -> "decode"
           [] OTHER                                    -> "content"

----------------------------------------------------------------------------
(* Transport *)

TruncateCap == 700

\* len(c) in bytes; "LONG" stands for a run of 700 filler bytes
ByteLen(c) ==
    CASE c = "LONG"               -> 700
      [] c = "oops"               -> 4
      [] c = "response_format"    -> 15
      [] c = "RESPONSE_FORMAT"    -> 15
      [] c = "responseMimeType"   -> 16
      [] c = "Response_Mime_Type" -> 18
      [] OTHER                    -> 1

RECURSIVE StrBytes(_)
StrBytes(s) == IF s = <<>> THEN 0 ELSE ByteLen(Head(s)) + StrBytes(Tail(s))

\* s[:max]: the characters that fit whole, then "~" for a character cut short
RECURSIVE Prefix(_, _)
Prefix(s, max) ==
    IF s = <<>> \/ max = 0 THEN <<>>
    ELSE IF ByteLen(Head(s)) <= max
         THEN <<Head(s)>> \o Prefix(Tail(s), max - ByteLen(Head(s)))
         ELSE <<"~">>

truncate(s, max) == IF StrBytes(s) <= max THEN s ELSE Prefix(s, max) \o <<"...">>

\* resp.Status
StatusText(status) ==
    CASE status = 200 -> "200 OK"
      [] status = 300 -> "300 Multiple Choices"
      [] status = 400 -> "400 Bad Request"
      [] OTHER        -> "500 Internal Server Error"

\* the zero value of every response struct the adapters decode into
ZeroOut ==
    [choices |-> <<>>, content |-> <<>>, candidates |-> <<>>,
     message |-> [content |-> <<>>], catalog |-> <<>>]

\* doJSON on the outcome o of client.Do: the error it returns and what it
\* decoded into out (out stays the zero value unless a body was decoded)
doJSON(o) ==
    IF o.net
    THEN [err |-> <<"http request failed: ">> \o o.text, out |-> ZeroOut]
    ELSE IF o.status >= 400
    THEN [err |-> <<"provider returned ", StatusText(o.status), ": ">>
                      \o truncate(o.text, TruncateCap),
          out |-> ZeroOut]
    ELSE IF TrimSpace(o.text) = <<>>
    THEN [err |-> NoErr, out |-> ZeroOut]
    ELSE IF ~o.json
    THEN [err |-> <<"decode response JSON: ", "; body=">>
                      \o truncate(o.text, TruncateCap),
          out |-> ZeroOut]
    ELSE [err |-> NoErr, out |-> o.val]

\* validateAskRequest comparing the raw fields, without trimming
validateAskRequest_Untrimmed(r) ==
    IF r.Model = <<>> THEN <<"model is required">>
    ELSE IF r.Question = <<>> THEN <<"question is required">>
    ELSE NoErr

validateAskRequest(r) ==
    IF TrimSpace(r.Model) = <<>> THEN <<"model is required">>
    ELSE IF TrimSpace(r.Question) = <<>> THEN <<"question is required">>
    ELSE NoErr

responseFormatLikelyUnsupported(err) ==
    IF err = NoErr THEN FALSE
    ELSE LET msg == ToLower(err)
         IN  \/ Contains(msg, "response_format")
             \/ Contains(msg, "responsemimetype")
             \/ Contains(msg, "response_mime_type")

\* joinURL(base, path) for a base already stripped of trailing slashes
joinURL(base, path) ==
    LET p == TrimSpace(path)
    IN  IF p = <<>> THEN base
        ELSE IF Head(p) \in {"/models", "/chat/completions", "/v1/models",
                             "/v1/messages", "/api/tags", "/api/chat", "/models/"}
        THEN base \o p
        ELSE base \o <<"/">> \o p

----------------------------------------------------------------------------
(* What the server may answer *)

SeqsUpTo(S, n) == UNION {[1..k -> S] : k \in 0..n}

ErrTexts ==
    {<<>>, <<"oops">>, <<"response_format">>, <<"responseMimeType">>,
     <<"Response_Mime_Type">>, <<"LONG", "RESPONSE_FORMAT">>}

\* client.Do failed: no HTTP response at all
NetFailures ==
    {[net |-> TRUE, status |-> 0, text |-> <<"timeout">>, json |-> FALSE,
      val |-> ZeroOut]}

\* a response with an error status and any body
ErrorResponses ==
    {[net |-> FALSE, status |-> 400, text |-> t, json |-> FALSE, val |-> ZeroOut] :
        t \in ErrTexts}

\* a 200 response whose body is blank, or is not JSON for the expected struct
UndecodableResponses ==
    {[net |-> FALSE, status |-> 200, text |-> t, json |-> FALSE, val |-> ZeroOut] :
        t \in {<<>>, <<SP>>, <<"oops">>, <<"response_format">>}}

\* a 200 response whose body decodes to v
Decoded(v) ==
    [net |-> FALSE, status |-> 200, text |-> <<"{json}">>, json |-> TRUE, val |-> v]

\* the responses doJSON decodes into a value of V: those with a status below
\* 400, a 2xx or a 3xx that http.Client hands back without following it (300,
\* 304, a redirect without Location)
Accepted(V) == {[Decoded(v) EXCEPT !.status = st] : v \in V, st \in {200, 300}}

\* choices[i].message.content of a chat completion: a JSON string, a JSON
\* array of items (objects carrying a text, or anything else), or another shape
Fragments ==
    {[obj |-> FALSE, text |-> <<>>]} \cup {[obj |-> TRUE, text |-> t] : t \in Texts}

Contents ==
    {[type |-> "null", str |-> <<>>, list |-> <<>>]}
        \cup {[type |-> "string", str |-> t, list |-> <<>>] : t \in Texts}
        \cup {[type |-> "list", str |-> <<>>, list |-> l] :
                 l \in SeqsUpTo(Fragments, MaxParts)}

ChatCompletions ==
    {[ZeroOut EXCEPT !.choices = ch] : ch \in {<<>>} \cup {<<c>> : c \in Contents}}

\* content[] of an Anthropic message: typed blocks
Blocks ==
    {[type |-> "text", text |-> t] : t \in Texts}
        \cup {[type |-> "tool_use", text |-> <<"a">>]}

AnthropicMessages ==
    {[ZeroOut EXCEPT !.content = bs] : bs \in SeqsUpTo(Blocks, MaxParts)}

\* candidates[] of a Gemini reply: each a list of text parts
Parts == {[text |-> t] : t \in Texts}

GeminiReplies ==
    {[ZeroOut EXCEPT !.candidates = cs] :
        cs \in {<<>>} \cup {<<[parts |-> ps]>> : ps \in SeqsUpTo(Parts, MaxParts)}}

\* message.content of an Ollama chat reply
OllamaChats == {[ZeroOut EXCEPT !.message = [content |-> t]] : t \in Texts}

\* a model catalog: entries with a name (or id), a display name and, for
\* Gemini, the supported generation methods; a struct decodes only its own fields
Names       == {<<>>, <<SP>>, <<"x">>, <<SP, "y">>, <<PFX>>, <<PFX, "x">>}
Displays    == {<<>>, <<SP, "D">>}
MethodLists ==
    {<< <<"embedContent">> >>, << <<"generateContent">> >>,
     << <<"embedContent">>, <<SP, "GENERATECONTENT">> >>}

IdCatalogs ==
    {[ZeroOut EXCEPT !.catalog = es] :
        es \in SeqsUpTo([name : Names, display : {<<>>}, methods : {<<>>}],
                        MaxCatalog)}

AnthropicCatalogs ==
    {[ZeroOut EXCEPT !.catalog = es] :
        es \in SeqsUpTo([name : Names, display : Displays, methods : {<<>>}],
                        MaxCatalog)}

GeminiCatalogs ==
    {[ZeroOut EXCEPT !.catalog = es] :
        es \in SeqsUpTo([name : Names, display : Displays, methods : MethodLists],
                        MaxCatalog)}

Failures == NetFailures \cup ErrorResponses \cup UndecodableResponses

----------------------------------------------------------------------------
(* Results of a call *)

Fail(err)    == [err |-> err, text |-> <<>>, models |-> <<>>]
OkText(t)    == [err |-> NoErr, text |-> t, models |-> <<>>]
OkModels(ms) == [err |-> NoErr, text |-> <<>>, models |-> ms]
NoResult     == Fail(NoErr)

\* the call returns res without (further) I/O
Finish(res) ==
    /\ pc' = "done"
    /\ result' = res
    /\ UNCHANGED <<sent, inflight>>

\* the call issues the HTTP request h and blocks until it is answered
Send(h, at) ==
    /\ pc' = at
    /\ sent' = Append(sent, h)
    /\ inflight' = inflight + 1
    /\ UNCHANGED result

\* the outcome o of the request in flight arrives
Receive(o) ==
    /\ recv' = Append(recv, o)
    /\ inflight > 0

----------------------------------------------------------------------------
(* Model lists *)

Injections(n) == {p \in [1..n -> 1..n] : \A i, j \in 1..n : p[i] = p[j] => i = j}

SortedByID(ms) ==
    \A i \in 1..(Len(ms) - 1) : ~StrLess(ms[i + 1].ID, ms[i].ID)

\* sortModels leaving the models in catalog order
sortModels_Unsorted(ms) == {ms}

\* sort.Slice(models, by ID): some ordering of the same models that is
\* ascending by ID (the sort is not stable, so equal IDs may land either way)
sortModels(ms) ==
    {r \in {[i \in 1..Len(ms) |-> ms[p[i]]] : p \in Injections(Len(ms))} :
        SortedByID(r)}

\* the loop of the OpenAI-compatible and Ollama ListModels over the catalog
RECURSIVE idModels(_)
idModels(es) ==
    IF es = <<>> THEN <<>>
    ELSE LET id == TrimSpace(Head(es).name)
         IN  IF id = <<>> THEN idModels(Tail(es))
             ELSE <<[ID |-> id, DisplayName |-> id]>> \o idModels(Tail(es))

\* the call returns one of the orderings the sort may produce
FinishModels(d, ms) ==
    /\ pc' = "done"
    /\ inflight' = inflight - 1
    /\ UNCHANGED sent
    /\ IF d.err # NoErr
       THEN result' = Fail(d.err)
       ELSE \E sorted \in sortModels(ms) : result' = OkModels(sorted)

----------------------------------------------------------------------------
(* OpenAI-compatible adapter *)

\* openAICompatibleClient.setHeaders
openAISetHeaders(c) ==
    setCustomHeaders(
        IF requiresAPIKey(c) /\ c.apiKey # <<>>
        THEN HeaderSet(NoHeaders, c.authHeader, c.authPrefix \o c.apiKey)
        ELSE NoHeaders,
        clientHeaders(c))

\* openAIPayload ignoring includeResponseFormat: the retry repeats the directive
openAIPayload_KeepsFormat(r, includeResponseFormat) ==
    LET payload ==
            [model       |-> r.Model,
             messages    |-> <<[role |-> "system", content |-> r.Prompt],
                               [role |-> "user", content |-> r.Question]>>,
             temperature |-> "0.2"]
    IN  IF r.ExpectJSON
        THEN payload @@ [response_format |-> [type |-> "json_object"]]
        ELSE payload

\* the payload and request built by askWithPayload
openAIPayload(r, includeResponseFormat) ==
    LET payload ==
            [model       |-> r.Model,
             messages    |-> <<[role |-> "system", content |-> r.Prompt],
                               [role |-> "user", content |-> r.Question]>>,
             temperature |-> "0.2"]
    IN  IF r.ExpectJSON /\ includeResponseFormat
        THEN payload @@ [response_format |-> [type |-> "json_object"]]
        ELSE payload

askWithPayload(c, r, includeResponseFormat) ==
    [method  |-> "POST",
     url     |-> joinURL(c.base, c.chatPath),
     headers |-> openAISetHeaders(c),
     body    |-> openAIPayload(r, includeResponseFormat)]

\* extractMessageContent returning a string content as the provider sent it
extractMessageContent_Untrimmed(content) ==
    CASE content.type = "string" ->
            [text |-> content.str, err |-> NoErr]
      [] content.type = "list" ->
            LET Usable(f) == f.obj /\ TrimSpace(f.text) # <<>>
                kept      == SelectSeq(content.list, Usable)
                parts     == [i \in 1..Len(kept) |-> kept[i].text]
            IN  IF Len(parts) = 0
                THEN [text |-> <<>>, err |-> <<"array content had no text parts">>]
                ELSE [text |-> TrimSpace(Join(parts)), err |-> NoErr]
      [] OTHER ->
            [text |-> <<>>, err |-> <<"unsupported content type">>]

\* extractMessageContent: the text of a string, of a list of fragments, or an
\* error for any other shape (a missing or null content included)
extractMessageContent(content) ==
    CASE content.type = "string" ->
            [text |-> TrimSpace(content.str), err |-> NoErr]
      [] content.type = "list" ->
            LET Usable(f) == f.obj /\ TrimSpace(f.text) # <<>>
                kept      == SelectSeq(content.list, Usable)
                parts     == [i \in 1..Len(kept) |-> kept[i].text]
            IN  IF Len(parts) = 0
                THEN [text |-> <<>>, err |-> <<"array content had no text parts">>]
                ELSE [text |-> TrimSpace(Join(parts)), err |-> NoErr]
      [] OTHER ->
            [text |-> <<>>, err |-> <<"unsupported content type">>]

\* openAIAskCheck without the key check
openAIAskCheck_KeyUnchecked(c, r) == validateAskRequest(r)

\* Ask before any I/O: request validation, then the key check
openAIAskCheck(c, r) ==
    LET e == validateAskRequest(r)
    IN  IF e # NoErr THEN e
        ELSE IF requiresAPIKey(c) /\ c.apiKey = <<>>
        THEN <<"API key not configured for ">> \o c.name
        ELSE NoErr

\* openAIAskRetries retrying whatever the first attempt returned
openAIAskRetries_Always(r, err) == r.ExpectJSON

\* Ask retries without response_format after this failure of the first attempt
openAIAskRetries(r, err) ==
    err # NoErr /\ r.ExpectJSON /\ responseFormatLikelyUnsupported(err)

\* openAIAskResult wrapping the error of the attempt
openAIAskResult_Wraps(c, d) ==
    IF d.err # NoErr THEN Fail(<<"ask ">> \o c.name \o <<": ">> \o d.err)
    ELSE IF Len(d.out.choices) = 0
    THEN Fail(<<"no choices returned by ">> \o c.name)
    ELSE LET x == extractMessageContent(d.out.choices[1])
         IN  IF x.err # NoErr
             THEN Fail(<<"decode ">> \o c.name \o <<" response content: ">> \o x.err)
             ELSE OkText(x.text)

\* Ask after its last attempt returned d
openAIAskResult(c, d) ==
    IF d.err # NoErr THEN Fail(d.err)
    ELSE IF Len(d.out.choices) = 0
    THEN Fail(<<"no choices returned by ">> \o c.name)
    ELSE LET x == extractMessageContent(d.out.choices[1])
         IN  IF x.err # NoErr
             THEN Fail(<<"decode ">> \o c.name \o <<" response content: ">> \o x.err)
             ELSE OkText(x.text)

OpenAIAsk ==
    /\ pc = "idle"
    /\ client.kind = "openai_compatible"
    /\ \E r \in AskRequests :
        /\ op' = "Ask"
        /\ req' = r
        /\ IF openAIAskCheck(client, r) # NoErr
           THEN Finish(Fail(openAIAskCheck(client, r)))
           ELSE Send(askWithPayload(client, r, TRUE), "wait1")
    /\ UNCHANGED <<spin, reply, timed, conf, calls, lookup, cli, opts, client, recv>>

OpenAIAskFirstResponse ==
    /\ pc = "wait1"
    /\ op = "Ask"
    /\ client.kind = "openai_compatible"
    /\ \E o \in Failures \cup Accepted(ChatCompletions) :
        /\ Receive(o)
        /\ IF openAIAskRetries(req, doJSON(o).err)
           THEN /\ pc' = "wait2"
                /\ sent' = Append(sent, askWithPayload(client, req, FALSE))
                /\ inflight' = (inflight - 1) + 1
                /\ UNCHANGED result
           ELSE /\ pc' = "done"
                /\ result' = openAIAskResult(client, doJSON(o))
                /\ inflight' = inflight - 1
                /\ UNCHANGED sent
    /\ UNCHANGED <<spin, reply, timed, conf, calls, lookup, cli, opts, client, op, req>>

OpenAIAskRetryResponse ==
    /\ pc = "wait2"
    /\ op = "Ask"
    /\ client.kind = "openai_compatible"
    /\ \E o \in Failures \cup Accepted(ChatCompletions) :
        /\ Receive(o)
        /\ pc' = "done"
        /\ result' = openAIAskResult(client, doJSON(o))
        /\ inflight' = inflight - 1
        /\ UNCHANGED sent
    /\ UNCHANGED <<spin, reply, timed, conf, calls, lookup, cli, opts, client, op, req>>

\* ListModels before any I/O: the key check
openAIListCheck(c) ==
    IF requiresAPIKey(c) /\ c.apiKey = <<>>
    THEN <<"API key not configured for ">> \o c.name
    ELSE NoErr

openAIListRequest(c) ==
    [method  |-> "GET",
     url     |-> joinURL(c.base, c.modelsPath),
     headers |-> openAISetHeaders(c),
     body    |-> <<>>]

OpenAIListModels ==
    /\ pc = "idle"
    /\ client.kind = "openai_compatible"
    /\ op' = "ListModels"
    /\ IF openAIListCheck(client) # NoErr
       THEN Finish(Fail(openAIListCheck(client)))
       ELSE Send(openAIListRequest(client), "wait1")
    /\ UNCHANGED <<spin, reply, timed, conf, calls, lookup, cli, opts, client, req, recv>>

OpenAIListModelsResponse ==
    /\ pc = "wait1"
    /\ op = "ListModels"
    /\ client.kind = "openai_compatible"
    /\ \E o \in Failures \cup Accepted(IdCatalogs) :
        /\ Receive(o)
        /\ FinishModels(doJSON(o), idModels(doJSON(o).out.catalog))
    /\ UNCHANGED <<spin, reply, timed, conf, calls, lookup, cli, opts, client, op, req>>

----------------------------------------------------------------------------
(* Anthropic adapter *)

\* anthropicClient.setHeaders
anthropicSetHeaders(c) ==
    setCustomHeaders(
        HeaderSet(HeaderSet(NoHeaders, <<"x-api-key">>, c.apiKey),
                  <<"anthropic-version">>, <<"2023-06-01">>),
        clientHeaders(c))

anthropicAskRequest(c, r) ==
    [method  |-> "POST",
     url     |-> joinURL(c.base, <<"/v1/messages">>),
     headers |-> anthropicSetHeaders(c),
     body    |-> [model      |-> r.Model,
                  max_tokens |-> 2048,
                  system     |-> r.Prompt,
                  messages   |-> <<[role    |-> "user",
                                    content |-> <<[type |-> "text",
                                                   text |-> r.Question]>>]>>]]

\* Ask before any I/O: request validation, then the key check
anthropicAskCheck(c, r) ==
    LET e == validateAskRequest(r)
    IN  IF e # NoErr THEN e
        ELSE IF c.apiKey = <<>> THEN <<"ANTHROPIC_API_KEY not configured">>
        ELSE NoErr

\* Ask after its one attempt returned d
anthropicAskResult(d) ==
    IF d.err # NoErr THEN Fail(d.err)
    ELSE LET Usable(b) == b.type = "text" /\ TrimSpace(b.text) # <<>>
             kept      == SelectSeq(d.out.content, Usable)
             parts     == [i \in 1..Len(kept) |-> kept[i].text]
         IN  IF Len(parts) = 0
             THEN Fail(<<"no text content returned by Anthropic">>)
             ELSE OkText(Join(parts))

AnthropicAsk ==
    /\ pc = "idle"
    /\ client.kind = "anthropic"
    /\ \E r \in AskRequests :
        /\ op' = "Ask"
        /\ req' = r
        /\ IF anthropicAskCheck(client, r) # NoErr
           THEN Finish(Fail(anthropicAskCheck(client, r)))
           ELSE Send(anthropicAskRequest(client, r), "wait1")
    /\ UNCHANGED <<spin, reply, timed, conf, calls, lookup, cli, opts, client, recv>>

AnthropicAskResponse ==
    /\ pc = "wait1"
    /\ op = "Ask"
    /\ client.kind = "anthropic"
    /\ \E o \in Failures \cup Accepted(AnthropicMessages) :
        /\ Receive(o)
        /\ pc' = "done"
        /\ result' = anthropicAskResult(doJSON(o))
        /\ inflight' = inflight - 1
        /\ UNCHANGED sent
    /\ UNCHANGED <<spin, reply, timed, conf, calls, lookup, cli, opts, client, op, req>>

\* ListModels before any I/O: the key check
anthropicListCheck(c) ==
    IF c.apiKey = <<>> THEN <<"ANTHROPIC_API_KEY not configured">> ELSE NoErr

anthropicListRequest(c) ==
    [method  |-> "GET",
     url     |-> joinURL(c.base, <<"/v1/models">>),
     headers |-> anthropicSetHeaders(c),
     body    |-> <<>>]

\* the loop of ListModels over the catalog
RECURSIVE anthropicModels(_)
anthropicModels(es) ==
    IF es = <<>> THEN <<>>
    ELSE LET id   == TrimSpace(Head(es).name)
             name == TrimSpace(Head(es).display)
         IN  IF id = <<>> THEN anthropicModels(Tail(es))
             ELSE <<[ID |-> id, DisplayName |-> IF name = <<>> THEN id ELSE name]>>
                      \o anthropicModels(Tail(es))

AnthropicListModels ==
    /\ pc = "idle"
    /\ client.kind = "anthropic"
    /\ op' = "ListModels"
    /\ IF anthropicListCheck(client) # NoErr
       THEN Finish(Fail(anthropicListCheck(client)))
       ELSE Send(anthropicListRequest(client), "wait1")
    /\ UNCHANGED <<spin, reply, timed, conf, calls, lookup, cli, opts, client, req, recv>>

AnthropicListModelsResponse ==
    /\ pc = "wait1"
    /\ op = "ListModels"
    /\ client.kind = "anthropic"
    /\ \E o \in Failures \cup Accepted(AnthropicCatalogs) :
        /\ Receive(o)
        /\ FinishModels(doJSON(o), anthropicModels(doJSON(o).out.catalog))
    /\ UNCHANGED <<spin, reply, timed, conf, calls, lookup, cli, opts, client, op, req>>

----------------------------------------------------------------------------
(* Gemini adapter *)

\* geminiClient.setHeaders
geminiSetHeaders(c) ==
    setCustomHeaders(HeaderSet(NoHeaders, <<"x-goog-api-key">>, c.apiKey),
                     clientHeaders(c))

\* geminiModel stripping every leading "models/"
RECURSIVE StripAllPrefixes(_)
StripAllPrefixes(s) ==
    IF s # <<>> /\ Head(s) = PFX THEN StripAllPrefixes(Tail(s)) ELSE s

geminiModel_StripsAll(r) == StripAllPrefixes(TrimSpace(r.Model))

\* the model id Ask routes to
geminiModel(r) == TrimPrefix(TrimSpace(r.Model))

geminiAskPath(model) == <<"/models/">> \o model \o <<":generateContent">>

geminiPayload(r) ==
    [systemInstruction |-> [parts |-> <<[text |-> r.Prompt]>>],
     contents          |-> <<[role |-> "user", parts |-> <<[text |-> r.Question]>>]>>,
     generationConfig  |->
        IF r.ExpectJSON
        THEN [temperature |-> "0.2", responseMimeType |-> "application/json"]
        ELSE [temperature |-> "0.2"]]

\* geminiPayloadNoFormat keeping the responseMimeType directive
geminiPayloadNoFormat_KeepsFormat(r) == geminiPayload(r)

geminiPayloadNoFormat(r) ==
    [systemInstruction |-> geminiPayload(r).systemInstruction,
     contents          |-> geminiPayload(r).contents,
     generationConfig  |-> [temperature |-> "0.2"]]

geminiAskRequest(c, r, payload) ==
    [method  |-> "POST",
     url     |-> joinURL(c.base, geminiAskPath(geminiModel(r))),
     headers |-> geminiSetHeaders(c),
     body    |-> payload]

\* Ask before any I/O: request validation, the key check, the stripped model
geminiAskCheck(c, r) ==
    LET e == validateAskRequest(r)
    IN  IF e # NoErr THEN e
        ELSE IF c.apiKey = <<>> THEN <<"GEMINI_API_KEY not configured">>
        ELSE IF geminiModel(r) = <<>> THEN <<"model is required">>
        ELSE NoErr

\* Ask retries without responseMimeType after this failure of the first attempt
geminiAskRetries(r, err) ==
    err # NoErr /\ r.ExpectJSON /\ responseFormatLikelyUnsupported(err)

\* Ask after its last attempt returned d
geminiAskResult(d) ==
    IF d.err # NoErr THEN Fail(d.err)
    ELSE IF Len(d.out.candidates) = 0
    THEN Fail(<<"no candidates returned by Gemini">>)
    ELSE LET Usable(p) == TrimSpace(p.text) # <<>>
             kept      == SelectSeq(d.out.candidates[1].parts, Usable)
             parts     == [i \in 1..Len(kept) |-> kept[i].text]
         IN  IF Len(parts) = 0
             THEN Fail(<<"Gemini response had no text parts">>)
             ELSE OkText(Join(parts))

GeminiAsk ==
    /\ pc = "idle"
    /\ client.kind = "gemini"
    /\ \E r \in AskRequests :
        /\ op' = "Ask"
        /\ req' = r
        /\ IF geminiAskCheck(client, r) # NoErr
           THEN Finish(Fail(geminiAskCheck(client, r)))
           ELSE Send(geminiAskRequest(client, r, geminiPayload(r)), "wait1")
    /\ UNCHANGED <<spin, reply, timed, conf, calls, lookup, cli, opts, client, recv>>

GeminiAskFirstResponse ==
    /\ pc = "wait1"
    /\ op = "Ask"
    /\ client.kind = "gemini"
    /\ \E o \in Failures \cup Accepted(GeminiReplies) :
        /\ Receive(o)
        /\ IF geminiAskRetries(req, doJSON(o).err)
           THEN /\ pc' = "wait2"
                /\ sent' = Append(sent, geminiAskRequest(client, req,
                                                         geminiPayloadNoFormat(req)))
                /\ inflight' = (inflight - 1) + 1
                /\ UNCHANGED result
           ELSE /\ pc' = "done"
                /\ result' = geminiAskResult(doJSON(o))
                /\ inflight' = inflight - 1
                /\ UNCHANGED sent
    /\ UNCHANGED <<spin, reply, timed, conf, calls, lookup, cli, opts, client, op, req>>

GeminiAskRetryResponse ==
    /\ pc = "wait2"
    /\ op = "Ask"
    /\ client.kind = "gemini"
    /\ \E o \in Failures \cup Accepted(GeminiReplies) :
        /\ Receive(o)
        /\ pc' = "done"
        /\ result' = geminiAskResult(doJSON(o))
        /\ inflight' = inflight - 1
        /\ UNCHANGED sent
    /\ UNCHANGED <<spin, reply, timed, conf, calls, lookup, cli, opts, client, op, req>>

\* ListModels before any I/O: the key check
geminiListCheck(c) ==
    IF c.apiKey = <<>> THEN <<"GEMINI_API_KEY not configured">> ELSE NoErr

geminiListRequest(c) ==
    [method  |-> "GET",
     url     |-> joinURL(c.base, <<"/models">>),
     headers |-> geminiSetHeaders(c),
     body    |-> <<>>]

\* supportsGenerateContent comparing case-sensitively
supportsGenerateContent_CaseSensitive(methods) ==
    \E i \in 1..Len(methods) : TrimSpace(methods[i]) = <<"generateContent">>

\* strings.EqualFold(strings.TrimSpace(method), "generateContent") for some method
supportsGenerateContent(methods) ==
    \E i \in 1..Len(methods) :
        ToLower(TrimSpace(methods[i])) = ToLower(<<"generateContent">>)

\* the loop of ListModels over the catalog
RECURSIVE geminiModels(_)
geminiModels(es) ==
    IF es = <<>> THEN <<>>
    ELSE LET id      == TrimPrefix(TrimSpace(Head(es).name))
             display == TrimSpace(Head(es).display)
         IN  IF ~supportsGenerateContent(Head(es).methods) THEN geminiModels(Tail(es))
             ELSE IF id = <<>> THEN geminiModels(Tail(es))
             ELSE <<[ID          |-> id,
                     DisplayName |-> IF display = <<>> THEN id ELSE display]>>
                      \o geminiModels(Tail(es))

GeminiListModels ==
    /\ pc = "idle"
    /\ client.kind = "gemini"
    /\ op' = "ListModels"
    /\ IF geminiListCheck(client) # NoErr
       THEN Finish(Fail(geminiListCheck(client)))
       ELSE Send(geminiListRequest(client), "wait1")
    /\ UNCHANGED <<spin, reply, timed, conf, calls, lookup, cli, opts, client, req, recv>>

GeminiListModelsResponse ==
    /\ pc = "wait1"
    /\ op = "ListModels"
    /\ client.kind = "gemini"
    /\ \E o \in Failures \cup Accepted(GeminiCatalogs) :
        /\ Receive(o)
        /\ FinishModels(doJSON(o), geminiModels(doJSON(o).out.catalog))
    /\ UNCHANGED <<spin, reply, timed, conf, calls, lookup, cli, opts, client, op, req>>

----------------------------------------------------------------------------
(* Ollama adapter *)

ollamaPayload(r) ==
    LET payload ==
            [model    |-> r.Model,
             messages |-> <<[role |-> "system", content |-> r.Prompt],
                            [role |-> "user", content |-> r.Question]>>,
             stream   |-> FALSE]
    IN  IF r.ExpectJSON THEN payload @@ [format |-> "json"] ELSE payload

ollamaAskRequest(c, r) ==
    [method  |-> "POST",
     url     |-> joinURL(c.base, <<"/api/chat">>),
     headers |-> NoHeaders,
     body    |-> ollamaPayload(r)]

\* Ask before any I/O: request validation only
ollamaAskCheck(c, r) == validateAskRequest(r)

\* Ask after its one attempt returned d
ollamaAskResult(d) ==
    IF d.err # NoErr THEN Fail(d.err)
    ELSE IF TrimSpace(d.out.message.content) = <<>>
    THEN Fail(<<"ollama response had empty content">>)
    ELSE OkText(d.out.message.content)

OllamaAsk ==
    /\ pc = "idle"
    /\ client.kind = "ollama"
    /\ \E r \in AskRequests :
        /\ op' = "Ask"
        /\ req' = r
        /\ IF ollamaAskCheck(client, r) # NoErr
           THEN Finish(Fail(ollamaAskCheck(client, r)))
           ELSE Send(ollamaAskRequest(client, r), "wait1")
    /\ UNCHANGED <<spin, reply, timed, conf, calls, lookup, cli, opts, client, recv>>

OllamaAskResponse ==
    /\ pc = "wait1"
    /\ op = "Ask"
    /\ client.kind = "ollama"
    /\ \E o \in Failures \cup Accepted(OllamaChats) :
        /\ Receive(o)
        /\ pc' = "done"
        /\ result' = ollamaAskResult(doJSON(o))
        /\ inflight' = inflight - 1
        /\ UNCHANGED sent
    /\ UNCHANGED <<spin, reply, timed, conf, calls, lookup, cli, opts, client, op, req>>

ollamaListRequest(c) ==
    [method  |-> "GET",
     url     |-> joinURL(c.base, <<"/api/tags">>),
     headers |-> NoHeaders,
     body    |-> <<>>]

OllamaListModels ==
    /\ pc = "idle"
    /\ client.kind = "ollama"
    /\ op' = "ListModels"
    /\ Send(ollamaListRequest(client), "wait1")
    /\ UNCHANGED <<spin, reply, timed, conf, calls, lookup, cli, opts, client, req, recv>>

OllamaListModelsResponse ==
    /\ pc = "wait1"
    /\ op = "ListModels"
    /\ client.kind = "ollama"
    /\ \E o \in Failures \cup Accepted(IdCatalogs) :
        /\ Receive(o)
        /\ FinishModels(doJSON(o), idModels(doJSON(o).out.catalog))
    /\ UNCHANGED <<spin, reply, timed, conf, calls, lookup, cli, opts, client, op, req>>

----------------------------------------------------------------------------
(* Concurrent callers on one shared client, each call under its own context *)

Callers == {1, 2}

\* Client.Ask and Client.ListModels dispatch on the client's concrete type
askCheck(c, r) ==
    CASE c.kind = "openai_compatible" -> openAIAskCheck(c, r)
      [] c.kind = "anthropic"         -> anthropicAskCheck(c, r)
      [] c.kind = "gemini"            -> geminiAskCheck(c, r)
      [] c.kind = "ollama"            -> ollamaAskCheck(c, r)

askRequest(c, r) ==
    CASE c.kind = "openai_compatible" -> askWithPayload(c, r, TRUE)
      [] c.kind = "anthropic"         -> anthropicAskRequest(c, r)
      [] c.kind = "gemini"            -> geminiAskRequest(c, r, geminiPayload(r))
      [] c.kind = "ollama"            -> ollamaAskRequest(c, r)

askRetries(c, r, err) ==
    CASE c.kind = "openai_compatible" -> openAIAskRetries(r, err)
      [] c.kind = "gemini"            -> geminiAskRetries(r, err)
      [] OTHER                        -> FALSE

askRetryRequest(c, r) ==
    CASE c.kind = "openai_compatible" -> askWithPayload(c, r, FALSE)
      [] c.kind = "gemini"            -> geminiAskRequest(c, r, geminiPayloadNoFormat(r))

askResult(c, d) ==
    CASE c.kind = "openai_compatible" -> openAIAskResult(c, d)
      [] c.kind = "anthropic"         -> anthropicAskResult(d)
      [] c.kind = "gemini"            -> geminiAskResult(d)
      [] c.kind = "ollama"            -> ollamaAskResult(d)

listCheck(c) ==
    CASE c.kind = "openai_compatible" -> openAIListCheck(c)
      [] c.kind = "anthropic"         -> anthropicListCheck(c)
      [] c.kind = "gemini"            -> geminiListCheck(c)
      [] c.kind = "ollama"            -> NoErr

listRequest(c) ==
    CASE c.kind = "openai_compatible" -> openAIListRequest(c)
      [] c.kind = "anthropic"         -> anthropicListRequest(c)
      [] c.kind = "gemini"            -> geminiListRequest(c)
      [] c.kind = "ollama"            -> ollamaListRequest(c)

listModels(c, es) ==
    CASE c.kind = "openai_compatible" -> idModels(es)
      [] c.kind = "anthropic"         -> anthropicModels(es)
      [] c.kind = "gemini"            -> geminiModels(es)
      [] c.kind = "ollama"            -> idModels(es)

\* doJSON without the caller's context: the request runs under a context that
\* is never cancelled
requestContext_Background(ctx) == "live"

\* req.WithContext(ctx) in doJSON: the request runs under the caller's context
requestContext(ctx) == ctx

\* client.Do on a request whose context is cancelled: no response, an error
\* naming the method, the URL and the context's error
Aborted(h) ==
    [net |-> TRUE, status |-> 0,
     text |-> <<h.method, " ">> \o h.url \o <<": context canceled">>,
     json |-> FALSE, val |-> ZeroOut]

\* what the callers ask, what the provider answers, how the client was built
SharedRequests ==
    {[Model |-> <<"x">>, Prompt |-> <<"p">>, Question |-> <<"q">>, ExpectJSON |-> FALSE],
     [Model |-> <<"response_format">>, Prompt |-> <<"p">>, Question |-> <<"q">>,
      ExpectJSON |-> TRUE]}

SharedReply ==
    [choices    |-> <<[type |-> "string", str |-> <<"a">>, list |-> <<>>]>>,
     content    |-> <<[type |-> "text", text |-> <<"a">>]>>,
     candidates |-> <<[parts |-> <<[text |-> <<"a">>]>>]>>,
     message    |-> [content |-> <<"a">>],
     catalog    |-> <<[name |-> <<"x">>, display |-> <<>>,
                       methods |-> << <<"generateContent">> >>]>>]

SharedAnswers ==
    NetFailures
        \cup {o \in ErrorResponses : o.text = <<"response_format">>}
        \cup {Decoded(SharedReply)}

SharedOptions == [APIKey : {<<"k">>}, BaseURL : {"BASE"}, Headers : HeaderMaps]

\* a caller between calls; abortedAt is the exchange that was in flight when
\* the call's context was cancelled, 0 while it has not been
IdleCall ==
    [pc |-> "idle", op |-> "none", req |-> NoRequest, sent |-> <<>>, recv |-> <<>>,
     result |-> NoResult, ctx |-> "live", abortedAt |-> 0]

IdleCalls == [p \in Callers |-> IdleCall]

\* the outcomes client.Do may return to the call
Outcomes(call) ==
    IF requestContext(call.ctx) = "cancelled"
    THEN {Aborted(call.sent[Len(call.sent)])}
    ELSE SharedAnswers

SharedAsk(p) ==
    /\ calls[p].pc = "idle"
    /\ \E r \in SharedRequests :
        calls' = [calls EXCEPT ![p] =
                    IF askCheck(client, r) # NoErr
                    THEN [@ EXCEPT !.op = "Ask", !.req = r, !.pc = "done",
                                   !.result = Fail(askCheck(client, r))]
                    ELSE [@ EXCEPT !.op = "Ask", !.req = r, !.pc = "wait1",
                                   !.sent = <<askRequest(client, r)>>]]
    /\ UNCHANGED <<spin, reply, timed, conf, opts, client, pc, op, req, sent, recv, inflight, result, lookup, cli>>

SharedListModels(p) ==
    /\ calls[p].pc = "idle"
    /\ calls' = [calls EXCEPT ![p] =
                    IF listCheck(client) # NoErr
                    THEN [@ EXCEPT !.op = "ListModels", !.pc = "done",
                                   !.result = Fail(listCheck(client))]
                    ELSE [@ EXCEPT !.op = "ListModels", !.pc = "wait1",
                                   !.sent = <<listRequest(client)>>]]
    /\ UNCHANGED <<spin, reply, timed, conf, opts, client, pc, op, req, sent, recv, inflight, result, lookup, cli>>

\* client.Do returns to an Ask: the fallback retry, or the call's result
SharedAskResponse(p) ==
    /\ calls[p].pc \in {"wait1", "wait2"}
    /\ calls[p].op = "Ask"
    /\ \E o \in Outcomes(calls[p]) :
        calls' = [calls EXCEPT ![p] =
                    IF @.pc = "wait1" /\ askRetries(client, @.req, doJSON(o).err)
                    THEN [@ EXCEPT !.pc = "wait2", !.recv = Append(@, o),
                                   !.sent = Append(@, askRetryRequest(client, calls[p].req))]
                    ELSE [@ EXCEPT !.pc = "done", !.recv = Append(@, o),
                                   !.result = askResult(client, doJSON(o))]]
    /\ UNCHANGED <<spin, reply, timed, conf, opts, client, pc, op, req, sent, recv, inflight, result, lookup, cli>>

\* client.Do returns to a ListModels
SharedListModelsResponse(p) ==
    /\ calls[p].pc = "wait1"
    /\ calls[p].op = "ListModels"
    /\ \E o \in Outcomes(calls[p]) :
        \E res \in IF doJSON(o).err # NoErr
                   THEN {Fail(doJSON(o).err)}
                   ELSE {OkModels(ms) :
                            ms \in sortModels(listModels(client, doJSON(o).out.catalog))} :
            calls' = [calls EXCEPT ![p] =
                        [@ EXCEPT !.pc = "done", !.recv = Append(@, o), !.result = res]]
    /\ UNCHANGED <<spin, reply, timed, conf, opts, client, pc, op, req, sent, recv, inflight, result, lookup, cli>>

\* the caller cancels the call's context, or its deadline passes, while an
\* HTTP exchange of the call is in flight
Cancel(p) ==
    /\ calls[p].pc \in {"wait1", "wait2"}
    /\ calls[p].ctx = "live"
    /\ calls' = [calls EXCEPT ![p] =
                    [@ EXCEPT !.ctx = "cancelled", !.abortedAt = Len(calls[p].sent)]]
    /\ UNCHANGED <<spin, reply, timed, conf, opts, client, pc, op, req, sent, recv, inflight, result, lookup, cli>>

\* the caller changes the Headers map it constructed the client from
CallerMutatesHeaders ==
    /\ \E h \in HeaderMaps \ {opts.Headers} : opts' = [opts EXCEPT !.Headers = h]
    /\ UNCHANGED <<spin, reply, timed, conf, client, pc, op, req, sent, recv, inflight, result, calls, lookup, cli>>

\* the call has returned to its caller
SharedReturn(p) ==
    /\ calls[p].pc = "done"
    /\ calls' = [calls EXCEPT ![p] = IdleCall]
    /\ UNCHANGED <<spin, reply, timed, conf, opts, client, pc, op, req, sent, recv, inflight, result, lookup, cli>>

----------------------------------------------------------------------------
(* The registry before it is used *)

NoLookup == [name |-> <<>>, called |-> FALSE, client |-> NoClient, err |-> <<>>]

----------------------------------------------------------------------------
(* The provider registry *)

\* the names a caller may give to New: a built-in name, in another letter
\* case, cut short, extended, of another provider or empty, with or without
\* whitespace around it
NameWords ==
    {Anthropic, Gemini, Ollama, OpenAI, OpenRouter, Proxy, <<>>,
     <<"O", "p", "e", "n", "A", "I">>, <<"G", "E", "M", "I", "N", "I">>,
     <<"o", "p", "e", "n">>, <<"a", "z", "u", "r", "e">>,
     OpenAI \o <<SP, "x">>}

ProviderNames ==
    {l \o w \o r : l \in {<<>>, <<SP>>}, w \in NameWords, r \in {<<>>, <<SP>>, <<NL>>}}

\* a caller resolves the name to a client
CallNew ==
    /\ ~lookup.called
    /\ lookup' = [name   |-> lookup.name,
                  called |-> TRUE,
                  client |-> New(lookup.name, opts).client,
                  err    |-> New(lookup.name, opts).err]
    /\ UNCHANGED <<spin, reply, timed, conf, opts, client, pc, op, req, sent, recv, inflight, result, calls, cli>>

\* the caller takes what New returned and is about to resolve another name
NextName ==
    /\ lookup.called
    /\ \E n \in ProviderNames : lookup' = [NoLookup EXCEPT !.name = n]
    /\ UNCHANGED <<spin, reply, timed, conf, opts, client, pc, op, req, sent, recv, inflight, result, calls, cli>>

----------------------------------------------------------------------------
(* The command line: arguments and options *)

Dash     == <<"-">>
DashDash == <<"-", "-">>

\* strings.HasPrefix
HasPrefix(s, p) == Len(s) >= Len(p) /\ SubSeq(s, 1, Len(p)) = p

\* s[n:], the string (or the argument list) without its first n elements
Drop(s, n) == SubSeq(s, n + 1, Len(s))

\* strings.IndexByte(s, c), counted from 1; 0 when c is not in s
IndexByte(s, c) ==
    IF Contains(s, c)
    THEN CHOOSE i \in 1..Len(s) : s[i] = c /\ \A j \in 1..(i - 1) : s[j] # c
    ELSE 0

\* strings.Join(parts, " ")
RECURSIVE JoinSpace(_)
JoinSpace(parts) ==
    IF parts = <<>> THEN <<>>
    ELSE IF Len(parts) = 1 THEN parts[1]
    ELSE parts[1] \o <<SP>> \o JoinSpace(Tail(parts))

\* %q of a string
Quoted(s) == <<"\"">> \o s \o <<"\"">>

\* parseOptionToken: the name, the value and whether a value was given
parseOptionToken(arg) ==
    LET trimmed == IF HasPrefix(arg, DashDash) THEN Drop(arg, 2)
                   ELSE IF HasPrefix(arg, Dash) THEN Drop(arg, 1)
                   ELSE arg
        idx == IndexByte(trimmed, "=")
    IN  IF idx > 0
        THEN [name     |-> SubSeq(trimmed, 1, idx - 1),
              value    |-> Drop(trimmed, idx),
              hasValue |-> TRUE]
        ELSE [name |-> trimmed, value |-> <<>>, hasValue |-> FALSE]

formatFlagName(name) ==
    IF Len(name) = 1 THEN Dash \o name ELSE DashDash \o name

\* the option names of parseGlobalArgs and of parseAskArgs
OptConfig     == <<"c", "o", "n", "f", "i", "g">>
OptHelp       == <<"h", "e", "l", "p">>
OptVersion    == <<"v", "e", "r", "s", "i", "o", "n">>
OptProvider   == <<"p", "r", "o", "v", "i", "d", "e", "r">>
OptModel      == <<"m", "o", "d", "e", "l">>
OptTimeout    == <<"t", "i", "m", "e", "o", "u", "t">>
OptNoMarkdown == <<"n", "o", "-", "m", "a", "r", "k", "d", "o", "w", "n">>
OptNoRun      == <<"n", "o", "-", "r", "u", "n">>
OptJSON       == <<"j", "s", "o", "n">>

\* globalOptions before any argument is read
NoGlobalOptions ==
    [ConfigPath |-> <<>>, ShowHelp |-> FALSE, ShowVersion |-> FALSE]

\* the state of the loop of parseGlobalArgs: the index of the next argument,
\* the options read so far and, once the loop has ended, the arguments left
\* for dispatch and the error
GlobalScan(i, o) == [i |-> i, opts |-> o, rest |-> <<>>, err |-> NoErr, done |-> FALSE]

\* one iteration of the loop of parseGlobalArgs
parseGlobalStep(args, st) ==
    LET i     == st.i
        arg   == TrimSpace(args[i])
        tok   == parseOptionToken(arg)
        value == TrimSpace(IF tok.hasValue THEN tok.value ELSE args[i + 1])
        stop  == [st EXCEPT !.done = TRUE]
    IN  IF i > Len(args) THEN stop
        ELSE IF arg = <<>> THEN [st EXCEPT !.i = i + 1]
        ELSE IF arg = DashDash THEN [stop EXCEPT !.rest = Drop(args, i)]
        ELSE IF ~HasPrefix(arg, Dash) \/ arg = Dash
        THEN [stop EXCEPT !.rest = Drop(args, i - 1)]
        ELSE IF tok.name \in {OptConfig, <<"c">>}
        THEN IF ~tok.hasValue /\ i + 1 > Len(args)
             THEN [stop EXCEPT !.err = formatFlagName(tok.name)
                                            \o <<" requires a value">>]
             ELSE IF value = <<>>
             THEN [stop EXCEPT !.err = formatFlagName(tok.name)
                                            \o <<" requires a non-empty value">>]
             ELSE [st EXCEPT !.i = IF tok.hasValue THEN i + 1 ELSE i + 2,
                             !.opts.ConfigPath = value]
        ELSE IF tok.name \in {OptHelp, <<"h">>}
        THEN [st EXCEPT !.i = i + 1, !.opts.ShowHelp = TRUE]
        ELSE IF tok.name \in {OptVersion, <<"v">>}
        THEN [st EXCEPT !.i = i + 1, !.opts.ShowVersion = TRUE]
        ELSE [stop EXCEPT !.rest = Drop(args, i - 1)]

\* the loop of parseGlobalArgs from the state st on
RECURSIVE parseGlobalLoop(_, _)
parseGlobalLoop(args, st) ==
    IF st.done THEN st
    ELSE CHOOSE end \in {parseGlobalLoop(args, next) :
                            next \in {parseGlobalStep(args, st)}} : TRUE

\* parseGlobalArgs: the options (opts), the arguments left for dispatch (rest)
\* and the error (err)
parseGlobalArgs(args) == parseGlobalLoop(args, GlobalScan(1, NoGlobalOptions))

\* the decimal digits and their values
Digits == {"0", "1", "2", "3", "4", "5", "6", "7", "8", "9"}

DigitVal(c) ==
    CASE c = "0" -> 0 [] c = "1" -> 1 [] c = "2" -> 2 [] c = "3" -> 3
      [] c = "4" -> 4 [] c = "5" -> 5 [] c = "6" -> 6 [] c = "7" -> 7
      [] c = "8" -> 8 [] OTHER -> 9

RECURSIVE Decimal(_)
Decimal(s) ==
    IF s = <<>> THEN 0
    ELSE 10 * Decimal(SubSeq(s, 1, Len(s) - 1)) + DigitVal(s[Len(s)])

AllDigits(s) == s # <<>> /\ \A i \in 1..Len(s) : s[i] \in Digits

\* strconv.Atoi: an optional sign and decimal digits
Atoi(s) ==
    LET signed == s # <<>> /\ s[1] \in {"+", "-"}
        body   == IF signed THEN Tail(s) ELSE s
    IN  IF ~AllDigits(body) THEN [ok |-> FALSE, n |-> 0]
        ELSE [ok |-> TRUE,
              n  |-> IF signed /\ s[1] = "-" THEN 0 - Decimal(body)
                     ELSE Decimal(body)]

\* seconds in the unit of a duration
UnitSeconds(u) == CASE u = "h" -> 3600 [] u = "m" -> 60 [] OTHER -> 1

\* time.ParseDuration on a whole number followed by one of the units h, m
\* and s (the durations given on the command line here), in seconds
ParseDuration(raw) ==
    LET body == SubSeq(raw, 1, Len(raw) - 1)
    IN  IF raw # <<>> /\ raw[Len(raw)] \in {"h", "m", "s"} /\ AllDigits(body)
        THEN [d |-> Decimal(body) * UnitSeconds(raw[Len(raw)]), err |-> NoErr]
        ELSE [d |-> 0, err |-> <<"time: invalid duration ">> \o Quoted(raw)]

\* parseDuration: the timeout in seconds, or an error
parseDuration(v) ==
    LET raw == TrimSpace(v)
    IN  IF raw = <<>> THEN [d |-> 0, err |-> <<"timeout value is empty">>]
        ELSE IF \E c \in {"h", "m", "s"} : Contains(raw, c)
        THEN IF ParseDuration(raw).err # NoErr THEN ParseDuration(raw)
             ELSE IF ParseDuration(raw).d <= 0
             THEN [d |-> 0, err |-> <<"timeout must be positive">>]
             ELSE ParseDuration(raw)
        ELSE IF ~Atoi(raw).ok \/ Atoi(raw).n <= 0
        THEN [d |-> 0,
              err |-> <<"timeout must be a positive integer seconds or duration">>]
        ELSE [d |-> Atoi(raw).n, err |-> NoErr]

\* the default of --timeout, in seconds
DefaultTimeout == 90

\* askOptions, and the showHelp flag, before any argument is read
NoAskOptions ==
    [Provider |-> <<>>, Model |-> <<>>, NoMarkdown |-> FALSE, NoRun |-> FALSE,
     AsJSON |-> FALSE, Timeout |-> DefaultTimeout, showHelp |-> FALSE]

\* the optionSpec list of parseAskArgs: every name with the option it sets
\* and whether it takes a value
AskSpecs ==
    [n \in {OptHelp, <<"h">>, OptProvider, <<"p">>, OptModel, <<"m">>,
            OptTimeout, OptNoMarkdown, OptNoRun, OptJSON} |->
        [opt |-> CASE n \in {OptHelp, <<"h">>}     -> "help"
                   [] n \in {OptProvider, <<"p">>} -> "provider"
                   [] n \in {OptModel, <<"m">>}    -> "model"
                   [] n = OptTimeout               -> "timeout"
                   [] n = OptNoMarkdown            -> "no-markdown"
                   [] n = OptNoRun                 -> "no-run"
                   [] OTHER                        -> "json",
         TakesValue |-> n \in {OptProvider, <<"p">>, OptModel, <<"m">>,
                               OptTimeout}]]

\* the Set function of an optionSpec of parseAskArgs, applied to the options
\* o and the value v: the options afterwards and the error
Set(spec, o, v) ==
    CASE spec.opt = "help" ->
            [o |-> [o EXCEPT !.showHelp = TRUE], err |-> NoErr]
      [] spec.opt = "provider" ->
            [o |-> [o EXCEPT !.Provider = TrimSpace(v)], err |-> NoErr]
      [] spec.opt = "model" ->
            [o |-> [o EXCEPT !.Model = TrimSpace(v)], err |-> NoErr]
      [] spec.opt = "timeout" ->
            IF parseDuration(v).err # NoErr
            THEN [o |-> o, err |-> <<"--timeout: ">> \o parseDuration(v).err]
            ELSE [o |-> [o EXCEPT !.Timeout = parseDuration(v).d], err |-> NoErr]
      [] spec.opt = "no-markdown" ->
            [o |-> [o EXCEPT !.NoMarkdown = TRUE], err |-> NoErr]
      [] spec.opt = "no-run" ->
            [o |-> [o EXCEPT !.NoRun = TRUE], err |-> NoErr]
      [] OTHER ->
            [o |-> [o EXCEPT !.AsJSON = TRUE], err |-> NoErr]

\* the state of the loop of scanOptions: the index of the next argument, the
\* positional arguments and the options collected so far, and the error
OptionScan(o) == [i |-> 1, rest |-> <<>>, o |-> o, err |-> NoErr, done |-> FALSE]

\* one iteration of the loop of scanOptions
scanStep(args, specs, st) ==
    LET i     == st.i
        arg   == TrimSpace(args[i])
        tok   == parseOptionToken(arg)
        value == IF tok.hasValue THEN tok.value ELSE args[i + 1]
        set   == Set(specs[tok.name], st.o, IF specs[tok.name].TakesValue
                                            THEN value ELSE <<>>)
        fail  == [st EXCEPT !.done = TRUE, !.rest = <<>>]
    IN  IF i > Len(args) THEN [st EXCEPT !.done = TRUE]
        ELSE IF arg = <<>> THEN [st EXCEPT !.i = i + 1]
        ELSE IF arg = DashDash
        THEN [st EXCEPT !.done = TRUE, !.rest = @ \o Drop(args, i)]
        ELSE IF ~HasPrefix(arg, Dash) \/ arg = Dash
        THEN [st EXCEPT !.i = i + 1, !.rest = Append(@, args[i])]
        ELSE IF tok.name \notin DOMAIN specs
        THEN [fail EXCEPT !.err = <<"unknown option ">> \o Quoted(arg)
                                        \o <<" (use --help)">>]
        ELSE IF specs[tok.name].TakesValue
        THEN IF ~tok.hasValue /\ i + 1 > Len(args)
             THEN [fail EXCEPT !.err = formatFlagName(tok.name)
                                            \o <<" requires a value">>]
             ELSE IF TrimSpace(value) = <<>>
             THEN [fail EXCEPT !.err = formatFlagName(tok.name)
                                            \o <<" requires a non-empty value">>]
             ELSE IF set.err # NoErr THEN [fail EXCEPT !.err = set.err]
             ELSE [st EXCEPT !.i = IF tok.hasValue THEN i + 1 ELSE i + 2,
                             !.o = set.o]
        ELSE IF tok.hasValue
        THEN [fail EXCEPT !.err = formatFlagName(tok.name)
                                        \o <<" does not accept a value">>]
        ELSE [st EXCEPT !.i = i + 1, !.o = set.o]

\* the loop of scanOptions from the state st on
RECURSIVE scanLoop(_, _, _)
scanLoop(args, specs, st) ==
    IF st.done THEN st
    ELSE CHOOSE end \in {scanLoop(args, specs, next) :
                            next \in {scanStep(args, specs, st)}} : TRUE

\* scanOptions on options that start as o: the positional arguments (rest),
\* the options the Set functions have set (o) and the error (err)
scanOptions(args, specs, o) == scanLoop(args, specs, OptionScan(o))

errShowHelp == <<"show help">>

\* parseAskArgs on what scanOptions returned
askArgs(scan) ==
    LET question == TrimSpace(JoinSpace(scan.rest))
    IN  IF scan.err # NoErr
        THEN [opts |-> scan.o, question |-> <<>>, err |-> scan.err]
        ELSE IF scan.o.showHelp
        THEN [opts |-> scan.o, question |-> <<>>, err |-> errShowHelp]
        ELSE IF question = <<>>
        THEN [opts |-> scan.o, question |-> <<>>,
              err |-> <<"question is required">>]
        ELSE [opts |-> scan.o, question |-> question, err |-> NoErr]

\* parseAskArgs: the options, the question and the error
parseAskArgs(args) ==
    CHOOSE parsed \in {askArgs(scan) :
                        scan \in {scanOptions(args, AskSpecs, NoAskOptions)}} : TRUE

\* the subcommand words of dispatch other than help and version
Subcommands ==
    {<<"m", "o", "d", "e", "l", "s">>, OptModel,
     OptProvider, OptProvider \o <<"s">>,
     <<"k", "e", "y">>, <<"k", "e", "y", "s">>,
     OptConfig,
     <<"m", "a", "r", "k", "d", "o", "w", "n">>}

\* dispatch: what the arguments left by parseGlobalArgs select
dispatch(args) ==
    LET sub == ToLower(TrimSpace(args[1]))
    IN  IF Len(args) = 0 THEN [to |-> "help", topic |-> <<>>]
        ELSE IF sub = OptHelp
        THEN [to |-> "help",
              topic |-> IF Len(args) > 1 THEN ToLower(TrimSpace(args[2]))
                        ELSE <<>>]
        ELSE IF sub \in {<<"-", "h">>, DashDash \o OptHelp}
        THEN [to |-> "help", topic |-> <<>>]
        ELSE IF sub \in {OptVersion, DashDash \o OptVersion, <<"-", "v">>}
        THEN [to |-> "version", topic |-> <<>>]
        ELSE IF sub \in Subcommands
        THEN [to |-> "subcommand", topic |-> sub]
        ELSE [to |-> "ask", topic |-> <<>>]

----------------------------------------------------------------------------
(* The command line: the assistant's response *)

\* a model response is a string of atoms: characters, and whole JSON objects
\* with the keys answer and command (one atom each)
ObjLs      == "{\"answer\":\"ok\",\"command\":\"ls\"}"
ObjPadded  == "{\"answer\":\" ok\",\"command\":\" ls \"}"
ObjNoCmd   == "{\"answer\":\"ok\",\"command\":\"\"}"
ObjBlank   == "{\"answer\":\"\",\"command\":\" \"}"

\* what json.Unmarshal decodes from each object
JSONObjects ==
    (ObjLs     :> [Answer |-> <<"o", "k">>, Command |-> <<"l", "s">>]) @@
    (ObjPadded :> [Answer |-> <<SP, "o", "k">>, Command |-> <<SP, "l", "s", SP>>]) @@
    (ObjNoCmd  :> [Answer |-> <<"o", "k">>, Command |-> <<>>]) @@
    (ObjBlank  :> [Answer |-> <<>>, Command |-> <<SP>>])

\* assistant.Response{}
NoResponse == [Answer |-> <<>>, Command |-> <<>>]

\* json.Unmarshal into a Response: one object, whitespace around it allowed;
\* the empty object and the literal null (one atom) leave the Response empty
Unmarshal(s) ==
    IF Len(TrimSpace(s)) = 1 /\ TrimSpace(s)[1] \in DOMAIN JSONObjects
    THEN [ok |-> TRUE, v |-> JSONObjects[TrimSpace(s)[1]]]
    ELSE IF TrimSpace(s) \in {<<"{", "}">>, <<"null">>}
    THEN [ok |-> TRUE, v |-> NoResponse]
    ELSE [ok |-> FALSE, v |-> NoResponse]

\* the scan of firstJSONObject from byte i on, the object starting at start:
\* the index of the byte that closes it, 0 when there is none
RECURSIVE scanObject(_, _, _, _, _)
scanObject(s, i, depth, inString, escaped) ==
    IF i > Len(s) THEN 0
    ELSE IF inString
    THEN IF escaped THEN scanObject(s, i + 1, depth, TRUE, FALSE)
         ELSE IF s[i] = "\\" THEN scanObject(s, i + 1, depth, TRUE, TRUE)
         ELSE IF s[i] = "\"" THEN scanObject(s, i + 1, depth, FALSE, FALSE)
         ELSE scanObject(s, i + 1, depth, TRUE, FALSE)
    ELSE IF s[i] = "\"" THEN scanObject(s, i + 1, depth, TRUE, FALSE)
    ELSE IF s[i] = "{" THEN scanObject(s, i + 1, depth + 1, FALSE, FALSE)
    ELSE IF s[i] \in DOMAIN JSONObjects
    THEN IF depth = 0 THEN i ELSE scanObject(s, i + 1, depth, FALSE, FALSE)
    ELSE IF s[i] = "}"
    THEN IF depth - 1 = 0 THEN i
         ELSE scanObject(s, i + 1, depth - 1, FALSE, FALSE)
    ELSE scanObject(s, i + 1, depth, FALSE, FALSE)

\* firstJSONObject: the first balanced {...} fragment of s
firstJSONObject(s) ==
    LET opens == {i \in 1..Len(s) : s[i] = "{" \/ s[i] \in DOMAIN JSONObjects}
        start == CHOOSE i \in opens : \A j \in opens : i <= j
        end   == scanObject(s, start, 0, FALSE, FALSE)
    IN  IF opens = {} \/ end = 0 THEN [ok |-> FALSE, fragment |-> <<>>]
        ELSE [ok |-> TRUE, fragment |-> SubSeq(s, start, end)]

\* Response.normalize
normalizeResponse(r) ==
    [Answer |-> TrimSpace(r.Answer), Command |-> TrimSpace(r.Command)]

\* assistant.Parse: the response and the error
Parse(text) ==
    LET candidate == TrimSpace(text)
        fragment  == firstJSONObject(candidate)
    IN  IF candidate = <<>>
        THEN [r |-> NoResponse, err |-> <<"empty model response">>]
        ELSE IF Unmarshal(candidate).ok
        THEN [r |-> normalizeResponse(Unmarshal(candidate).v), err |-> NoErr]
        ELSE IF ~fragment.ok
        THEN [r |-> NoResponse, err |-> <<"model response is not valid JSON">>]
        ELSE IF ~Unmarshal(fragment.fragment).ok
        THEN [r |-> NoResponse, err |-> <<"decode model JSON response: ">>]
        ELSE [r |-> normalizeResponse(Unmarshal(fragment.fragment).v),
              err |-> NoErr]

\* Response.HasCommand
HasCommand(r) == TrimSpace(r.Command) # <<>>

\* the three backquotes that open and close a code block, one atom
Fence == "FENCE"

\* strings.Split(s, sep) for a separator that is one atom
RECURSIVE Split(_, _)
Split(s, sep) ==
    IF ~Contains(s, sep) THEN <<s>>
    ELSE <<SubSeq(s, 1, IndexByte(s, sep) - 1)>>
            \o Split(Drop(s, IndexByte(s, sep)), sep)

Dollar == <<"$", SP>>

\* strings.TrimPrefix(s, p)
TrimPrefixOf(s, p) == IF HasPrefix(s, p) THEN Drop(s, Len(p)) ELSE s

\* the first line of lines that starts with "$ " once trimmed, without it
RECURSIVE firstDollarLine(_)
firstDollarLine(lines) ==
    IF lines = <<>> THEN <<>>
    ELSE IF HasPrefix(TrimSpace(Head(lines)), Dollar)
    THEN TrimSpace(TrimPrefixOf(TrimSpace(Head(lines)), Dollar))
    ELSE firstDollarLine(Tail(lines))

\* the first line of lines that is not blank, trimmed, without a leading "$ "
RECURSIVE firstCommandLine(_)
firstCommandLine(lines) ==
    IF lines = <<>> THEN <<>>
    ELSE IF TrimSpace(Head(lines)) # <<>>
    THEN TrimPrefixOf(TrimSpace(Head(lines)), Dollar)
    ELSE firstCommandLine(Tail(lines))

parseAssistantFallbackFromCodeBlock(text) ==
    LET candidate == TrimSpace(text)
        start     == IndexByte(candidate, Fence)
        after     == Drop(candidate, start)
        end       == IndexByte(after, Fence)
        lines     == Split(TrimSpace(SubSeq(after, 1, end - 1)), NL)
        named     == \E lang \in {<<"b", "a", "s", "h">>, <<"s", "h">>,
                                  <<"z", "s", "h">>} : HasPrefix(lines[1], lang)
    IN  IF candidate = <<>> THEN <<>>
        ELSE IF start = 0 THEN firstDollarLine(Split(candidate, NL))
        ELSE IF end = 0 THEN <<>>
        ELSE firstCommandLine(IF named THEN Tail(lines) ELSE lines)

fallbackAssistantResponse(text) ==
    IF TrimSpace(text) = <<>> THEN NoResponse
    ELSE [Answer  |-> TrimSpace(text),
          Command |-> parseAssistantFallbackFromCodeBlock(TrimSpace(text))]

----------------------------------------------------------------------------
(* The command line: one run of `ask` *)

\* the arguments a user types
Tokens ==
    {<<"h", "i">>, DashDash, Dash, <<"-", "q">>, DashDash \o OptNoRun,
     DashDash \o OptJSON, <<"-", "h">>, <<"-", "v">>, <<"-", "p">>, OpenAI,
     DashDash \o OptJSON \o <<"=", "1">>, <<SP>>,
     <<"m", "o", "d", "e", "l", "s">>, <<"-", "c">>,
     DashDash \o OptTimeout \o <<"=", "5">>}

MaxArgs == 3

ArgLists == StrOver(Tokens, MaxArgs)

\* the configuration that Run loads: the current provider; every built-in
\* provider has a model set and there are no custom providers
Configs == [CurrentProvider : {<<>>, OpenAI}]

ConfiguredModel == <<"x">>

\* Config.ProviderExists
ProviderExists(cfg, name) ==
    normalize(name) \in {SupportedProviders[i] : i \in 1..Len(SupportedProviders)}

\* what client.Ask returns to runAsk: an error, or the text of the response
AskTexts ==
    {<<ObjLs>>, <<ObjPadded, NL>>, <<ObjNoCmd>>, <<ObjBlank>>,
     <<"s", "u", "r", "e", ":", SP, ObjLs>>,
     <<"$", SP, "l", "s">>, <<"h", "i">>, <<>>,
     <<Fence, "s", "h", NL, "$", SP, "l", "s", NL, Fence>>,
     <<"{", "l", "s">>}

AskOutcomes ==
    {[err |-> <<"provider error">>, text |-> <<>>]}
        \cup {[err |-> NoErr, text |-> t] : t \in AskTexts}

\* what the user leaves in the prompt prefilled with cmd before Enter
Edits(cmd) ==
    {cmd, <<"p", "w", "d">>, <<SP, "p", "w", "d", SP>>, <<>>, <<SP>>,
     cmd \o <<SP, "-", "l">>}

\* the values of $SHELL
Shells == {<<>>, <<"/bin/zsh">>, <<SP>>}

\* what a started process returns from Run
RunErrors == {NoErr, <<"exit status 1">>}

\* clipboardCommands(goos)
clipboardCommands(goos) ==
    CASE goos = "darwin"  -> <<[name |-> <<"pbcopy">>, args |-> <<>>]>>
      [] goos = "windows" ->
            <<[name |-> <<"cmd">>, args |-> << <<"/c">>, <<"clip">> >>]>>
      [] OTHER ->
            <<[name |-> <<"wl-copy">>, args |-> <<>>],
              [name |-> <<"xclip">>,
               args |-> << <<"-selection">>, <<"clipboard">> >>],
              [name |-> <<"xsel">>,
               args |-> << <<"--clipboard">>, <<"--input">> >>]>>

GOOS == {"darwin", "windows", "linux"}

\* copyToClipboard(text, goos) when the first `works` - 1 clipboard commands
\* fail and the next succeeds (all fail when there is no such command): the
\* processes started, each reading the text on its standard input, and the
\* error
copyToClipboard(text, goos, works) ==
    LET cmds  == clipboardCommands(goos)
        tried == IF works <= Len(cmds) THEN works ELSE Len(cmds)
    IN  IF TrimSpace(text) = <<>>
        THEN [procs |-> <<>>, err |-> <<"clipboard text is empty">>]
        ELSE [procs |-> [i \in 1..tried |->
                            [name  |-> cmds[i].name,
                             args  |-> cmds[i].args,
                             stdin |-> TrimSpace(text)]],
              err   |-> IF works <= Len(cmds) THEN NoErr
                        ELSE <<"no working clipboard command found">>]

\* the process PromptAndRun starts for the line input: exec.Command(shell,
\* "-lc", input), reading the terminal
shellCommand(shell, input) ==
    [name  |-> IF TrimSpace(shell) = <<>> THEN <<"sh">> ELSE TrimSpace(shell),
     args  |-> << <<"-lc">>, input >>,
     stdin |-> <<"os.Stdin">>]

\* the line PromptAndRun runs when readline returns line for the prefill cmd
submittedInput(cmd, line) ==
    IF TrimSpace(line) = <<>> THEN cmd ELSE TrimSpace(line)

\* one run of `ask` before it starts
NoRun ==
    [stage |-> "none", args |-> <<>>, loaded |-> FALSE, to |-> "none",
     opts |-> NoAskOptions, question |-> <<>>, provider |-> <<>>,
     model |-> <<>>, parseErr |-> NoErr, parsed |-> NoResponse,
     prefill |-> <<>>, key |-> "none", line |-> <<>>, procs |-> <<>>,
     out |-> <<>>, err |-> NoErr]

\* something written to stdout or stderr
Written(kind, text) == [kind |-> kind, text |-> text]

\* runAsk up to the call of client.Ask, in the run r, on what parseAskArgs
\* returned (p) and the loaded configuration cfg
runAsk(r, p, cfg) ==
    LET given    == ToLower(TrimSpace(p.opts.Provider))
        provider == IF given # <<>> THEN given
                    ELSE ToLower(TrimSpace(cfg.CurrentProvider))
        model    == IF TrimSpace(p.opts.Model) # <<>> THEN TrimSpace(p.opts.Model)
                    ELSE ConfiguredModel
        parsed   == [r EXCEPT !.opts = p.opts, !.question = p.question]
    IN  IF p.err = errShowHelp
        THEN [parsed EXCEPT !.out = <<Written("help", <<"ask">>)>>]
        ELSE IF p.err # NoErr THEN [parsed EXCEPT !.err = p.err]
        ELSE IF provider = <<>>
        THEN [parsed EXCEPT !.err = <<"no default provider set">>]
        ELSE IF ~ProviderExists(cfg, provider)
        THEN [parsed EXCEPT !.err = <<"provider ">> \o Quoted(provider)
                                        \o <<" is not configured">>]
        ELSE IF New(provider, [APIKey |-> <<>>, BaseURL |-> "BASE",
                               Headers |-> NoHeaders]).err # NoErr
        THEN [parsed EXCEPT !.err = New(provider,
                                        [APIKey |-> <<>>, BaseURL |-> "BASE",
                                         Headers |-> NoHeaders]).err]
        ELSE [parsed EXCEPT !.stage = "asking", !.provider = provider,
                            !.model = model]

\* the arguments Run hands to dispatch, g being what parseGlobalArgs returned
dispatchArgs(g) ==
    IF g.opts.ShowHelp THEN <<OptHelp>> \o g.rest ELSE g.rest

\* cli.Run on the arguments args up to the call of client.Ask: g is what
\* parseGlobalArgs returns on args, p what parseAskArgs returns on the
\* arguments of dispatch when dispatch calls runAsk, and loaded tells whether
\* the configuration could be resolved, loaded and saved. The subcommands
\* models, provider, key, config and markdown are not followed further: none
\* of them starts a process.
runOutcome(args, g, p, cfg, loaded) ==
    LET r    == [NoRun EXCEPT !.stage = "done", !.args = args]
        d    == dispatch(dispatchArgs(g))
        at   == [r EXCEPT !.loaded = TRUE, !.to = d.to]
    IN  IF g.err # NoErr THEN [r EXCEPT !.err = g.err]
        ELSE IF ~loaded THEN [r EXCEPT !.err = <<"config">>]
        ELSE IF g.opts.ShowVersion
        THEN [r EXCEPT !.loaded = TRUE, !.to = "version",
                       !.out = <<Written("version", <<>>)>>]
        ELSE CASE d.to = "help" -> [at EXCEPT !.out = <<Written("help", d.topic)>>]
               [] d.to = "version" -> [at EXCEPT !.out = <<Written("version", <<>>)>>]
               [] d.to = "subcommand" -> at
               [] OTHER -> runAsk(at, p, cfg)

\* what runAsk does with the parsed response under the options o
commandAction_IgnoresNoRun(o, parsed) ==
    IF o.AsJSON THEN "json"
    ELSE IF HasCommand(parsed) THEN "prompt"
    ELSE "none"

commandAction(o, parsed) ==
    IF o.AsJSON THEN "json"
    ELSE IF HasCommand(parsed) THEN IF o.NoRun THEN "print" ELSE "prompt"
    ELSE "none"

\* the warning runAsk ends with when the response was not strict JSON
fallbackWarning(parseErr) ==
    IF parseErr # NoErr
    THEN <<Written("warning", <<"provider response was not strict JSON; used fallback parser">>)>>
    ELSE <<>>

\* a user starts `ask` with some arguments
Run ==
    /\ cli.stage = "none"
    /\ \E args \in ArgLists, cfg \in Configs, loaded \in BOOLEAN :
        \E g \in {parseGlobalArgs(args)} :
        \E p \in {parseAskArgs(dispatchArgs(g))} :
            cli' = runOutcome(args, g, p, cfg, loaded)
    /\ UNCHANGED <<spin, reply, timed, conf, opts, client, pc, op, req, sent, recv, inflight, result, calls, lookup>>

\* client.Ask returns to runAsk, which parses the response, prints it and,
\* for a command to run, opens the prompt of PromptAndRun prefilled with it
AskReturns ==
    /\ cli.stage = "asking"
    /\ \E a \in AskOutcomes, promptOK \in BOOLEAN :
        \E p \in {Parse(a.text)} :
        \E parsed \in {IF p.err # NoErr THEN fallbackAssistantResponse(a.text)
                        ELSE p.r} :
        LET act    == commandAction(cli.opts, parsed)
            answer == IF parsed.Answer # <<>>
                      THEN <<Written("answer", parsed.Answer)>> ELSE <<>>
            got    == [cli EXCEPT !.stage = "done", !.parseErr = p.err,
                                  !.parsed = parsed]
            cmd    == TrimSpace(parsed.Command)
        IN  cli' =
              IF a.err # NoErr THEN [cli EXCEPT !.stage = "done", !.err = a.err]
              ELSE CASE act = "json" ->
                            [got EXCEPT !.out = <<Written("json", parsed.Command)>>]
                     [] act = "print" ->
                            [got EXCEPT !.out = answer
                                    \o <<Written("command", parsed.Command)>>]
                     [] act = "prompt" ->
                            IF cmd = <<>>
                            THEN [got EXCEPT !.out = answer \o fallbackWarning(p.err)]
                            ELSE IF ~promptOK
                            THEN [got EXCEPT !.out = answer,
                                             !.err = <<"init command prompt: ">>]
                            ELSE [got EXCEPT !.stage = "prompt", !.out = answer,
                                             !.prefill = cmd]
                     [] OTHER ->
                            [got EXCEPT !.out = answer \o fallbackWarning(p.err)]
    /\ UNCHANGED <<spin, reply, timed, conf, opts, client, pc, op, req, sent, recv, inflight, result, calls, lookup>>

\* the user presses Enter on the line left in the prompt: PromptAndRun runs it
\* in the shell and returns what the shell returned
Enter ==
    /\ cli.stage = "prompt"
    /\ \E line \in Edits(cli.prefill), shell \in Shells, e \in RunErrors :
        cli' = [cli EXCEPT
                    !.stage = "done", !.key = "enter", !.line = line,
                    !.procs = Append(@, shellCommand(shell,
                                    submittedInput(cli.prefill, line))),
                    !.err = e,
                    !.out = @ \o (IF e = NoErr THEN fallbackWarning(cli.parseErr)
                                  ELSE <<>>)]
    /\ UNCHANGED <<spin, reply, timed, conf, opts, client, pc, op, req, sent, recv, inflight, result, calls, lookup>>

\* the user presses Ctrl+C: PromptAndRun copies the command to the clipboard
Interrupt ==
    /\ cli.stage = "prompt"
    /\ \E goos \in GOOS, works \in 1..(Len(clipboardCommands("linux")) + 1) :
        LET copy == copyToClipboard(cli.prefill, goos, works)
        IN  cli' = [cli EXCEPT
                        !.stage = "done", !.key = "ctrl-c",
                        !.procs = @ \o copy.procs,
                        !.out = @ \o <<Written("notice",
                                    IF copy.err = NoErr
                                    THEN <<"command copied to clipboard">>
                                    ELSE <<"command cancelled">>)>>
                                  \o fallbackWarning(cli.parseErr)]
    /\ UNCHANGED <<spin, reply, timed, conf, opts, client, pc, op, req, sent, recv, inflight, result, calls, lookup>>

\* the user presses Ctrl+D: PromptAndRun returns without running anything
EOF ==
    /\ cli.stage = "prompt"
    /\ cli' = [cli EXCEPT !.stage = "done", !.key = "ctrl-d",
                          !.out = @ \o fallbackWarning(cli.parseErr)]
    /\ UNCHANGED <<spin, reply, timed, conf, opts, client, pc, op, req, sent, recv, inflight, result, calls, lookup>>

\* reading the line fails
ReadError ==
    /\ cli.stage = "prompt"
    /\ cli' = [cli EXCEPT !.stage = "done", !.key = "error",
                          !.err = <<"read command input: ">>]
    /\ UNCHANGED <<spin, reply, timed, conf, opts, client, pc, op, req, sent, recv, inflight, result, calls, lookup>>

\* the process exits; the next run of `ask` starts afresh
Exit ==
    /\ cli.stage = "done"
    /\ cli' = NoRun
    /\ UNCHANGED <<spin, reply, timed, conf, opts, client, pc, op, req, sent, recv, inflight, result, calls, lookup>>


----------------------------------------------------------------------------
(* The configuration *)

\* strings.TrimRight(s, "/")
RECURSIVE TrimSlash(_)
TrimSlash(s) ==
    IF s # <<>> /\ s[Len(s)] = "/" THEN TrimSlash(SubSeq(s, 1, Len(s) - 1))
    ELSE s

\* a Go map as a function: m[k] with the zero value for a missing key, the
\* assignment m[k] = v, and delete(m, k)
MapGet(m, k, zero) == IF k \in DOMAIN m THEN m[k] ELSE zero

MapPut(m, k, v) == [x \in DOMAIN m \cup {k} |-> IF x = k THEN v ELSE m[x]]

MapDelete(m, k) == [x \in DOMAIN m \ {k} |-> m[x]]

NoMap == [k \in {} |-> <<>>]

defaultOpenAIModel == <<"gpt-5-nano">>

currentVersion == 1

\* ProviderConfig{}
NoProviderConfig ==
    [APIKey |-> <<>>, Model |-> <<>>, BaseURL |-> <<>>, APIKeyEnv |-> <<>>]

\* OpenAICompatibleProvider{}
NoCustomProvider ==
    [BaseURL |-> <<>>, APIKey |-> <<>>, Model |-> <<>>, APIKeyEnv |-> <<>>,
     ModelsPath |-> <<>>, ChatPath |-> <<>>, AuthHeader |-> <<>>,
     AuthPrefix |-> <<>>, Headers |-> NoMap]

\* the defaults of the built-in providers
builtinProviders ==
    (Anthropic :> [BaseURL   |-> <<"https://api.anthropic.com">>,
                   APIKeyEnv |-> <<"ANTHROPIC_API_KEY">>]) @@
    (Gemini :> [BaseURL   |-> <<"https://generativelanguage.googleapis.com/v1beta">>,
                APIKeyEnv |-> <<"GEMINI_API_KEY">>]) @@
    (Ollama :> [BaseURL   |-> <<"http://127.0.0.1:11434">>,
                APIKeyEnv |-> <<>>]) @@
    (OpenAI :> [BaseURL   |-> <<"https://api.openai.com/v1">>,
                APIKeyEnv |-> <<"OPENAI_API_KEY">>]) @@
    (OpenRouter :> [BaseURL   |-> <<"https://openrouter.ai/api/v1">>,
                    APIKeyEnv |-> <<"OPENROUTER_API_KEY">>])

IsBuiltinProvider(name) == ToLower(TrimSpace(name)) \in DOMAIN builtinProviders

builtinProviderScaffold ==
    [name \in DOMAIN builtinProviders |->
        [APIKey    |-> <<>>,
         Model     |-> IF name = OpenAI THEN defaultOpenAIModel ELSE <<>>,
         BaseURL   |-> IF name = Ollama
                       THEN TrimSlash(TrimSpace(builtinProviders[name].BaseURL))
                       ELSE <<>>,
         APIKeyEnv |-> TrimSpace(builtinProviders[name].APIKeyEnv)]]

\* the legacy current_models entries that Config.normalize migrates: the
\* provider and the model of each, trimmed
legacyModels(c) ==
    {e \in {[provider |-> ToLower(TrimSpace(k)),
             model    |-> TrimSpace(c.CurrentModels[k])] :
                k \in DOMAIN c.CurrentModels} :
        e.provider # <<>> /\ e.model # <<>>}

\* Config.normalize (two legacy entries for one provider are applied in the
\* order of Go's map iteration; no configuration here has two)
normalizeConfig(c) ==
    LET legacy == legacyModels(c)
        forCustom == {e \in legacy : e.provider \in DOMAIN c.CustomProviders}
        forBuiltin == legacy \ forCustom
        modelOf(set, p) == (CHOOSE e \in set : e.provider = p).model
    IN  [c EXCEPT
            !.Version = IF @ = 0 THEN currentVersion ELSE @,
            !.CustomProviders =
                [p \in DOMAIN c.CustomProviders |->
                    IF (\E e \in forCustom : e.provider = p)
                            /\ TrimSpace(c.CustomProviders[p].Model) = <<>>
                    THEN [c.CustomProviders[p] EXCEPT
                                !.Model = modelOf(forCustom, p)]
                    ELSE c.CustomProviders[p]],
            !.Providers =
                [p \in DOMAIN c.Providers
                        \cup {e.provider : e \in forBuiltin} |->
                    IF (\E e \in forBuiltin : e.provider = p)
                            /\ TrimSpace(MapGet(c.Providers, p,
                                            NoProviderConfig).Model) = <<>>
                    THEN [MapGet(c.Providers, p, NoProviderConfig) EXCEPT
                                !.Model = modelOf(forBuiltin, p)]
                    ELSE c.Providers[p]],
            !.CurrentModels = NoMap,
            !.OllamaHost = TrimSlash(TrimSpace(@)),
            !.CurrentProvider = ToLower(TrimSpace(@))]

DefaultConfig ==
    normalizeConfig([Version         |-> currentVersion,
                     CurrentProvider |-> <<>>,
                     CurrentModels   |-> NoMap,
                     Providers       |-> builtinProviderScaffold,
                     CustomProviders |-> NoMap,
                     OllamaHost      |-> <<>>,
                     RenderMarkdown  |-> TRUE])

\* Config.GetModel
GetModel(c, provider) ==
    LET p == ToLower(TrimSpace(provider))
    IN  IF p = <<>> THEN <<>>
        ELSE IF p \in DOMAIN c.CustomProviders
        THEN TrimSpace(c.CustomProviders[p].Model)
        ELSE TrimSpace(MapGet(c.Providers, p, NoProviderConfig).Model)

\* the assignment of one field of the entry of provider p, as SetModel,
\* SetAPIKey and SetAPIKeyEnv make it: in the custom provider of that name
\* when there is one, in Providers otherwise
setField(c, p, field, value) ==
    IF p \in DOMAIN c.CustomProviders
    THEN [c EXCEPT !.CustomProviders[p] = [@ EXCEPT ![field] = value]]
    ELSE [c EXCEPT !.Providers = MapPut(@, p,
                [MapGet(@, p, NoProviderConfig) EXCEPT ![field] = value])]

\* Config.SetModel
SetModel(c, provider, model) ==
    setField(normalizeConfig(c), ToLower(TrimSpace(provider)), "Model",
             TrimSpace(model))

\* Config.SetAPIKey
SetAPIKey(c, provider, key) ==
    setField(normalizeConfig(c), ToLower(TrimSpace(provider)), "APIKey",
             TrimSpace(key))

\* Config.SetAPIKeyEnv
SetAPIKeyEnv(c, provider, envVar) ==
    setField(normalizeConfig(c), ToLower(TrimSpace(provider)), "APIKeyEnv",
             TrimSpace(envVar))

\* Config.SetBaseURL
SetBaseURL(c, provider, baseURL) ==
    LET p   == ToLower(TrimSpace(provider))
        url == TrimSlash(TrimSpace(baseURL))
        n   == normalizeConfig(c)
    IN  [n EXCEPT
            !.OllamaHost = IF p = Ollama THEN url ELSE @,
            !.Providers = MapPut(@, p,
                [MapGet(@, p, NoProviderConfig) EXCEPT !.BaseURL = url])]

\* Config.SetCurrentProvider
SetCurrentProvider(c, provider) ==
    [normalizeConfig(c) EXCEPT !.CurrentProvider = ToLower(TrimSpace(provider))]

\* Config.ProviderExists on a configuration with custom providers
ConfigProviderExists(c, name) ==
    \/ IsBuiltinProvider(ToLower(TrimSpace(name)))
    \/ ToLower(TrimSpace(name)) \in DOMAIN c.CustomProviders

DefaultModelsPath == <<"/models">>
DefaultChatPath   == <<"/chat/completions">>
DefaultAuthHeader == <<"Authorization">>
DefaultAuthPrefix == <<"Bearer", SP>>

\* AddCustomProvider storing the provider as given, under the name as typed
AddCustomProvider_AsGiven(c, name, input) ==
    IF TrimSpace(name) = <<>> \/ IsBuiltinProvider(name)
            \/ TrimSpace(input.BaseURL) = <<>>
    THEN [cfg |-> c, err |-> <<"rejected">>]
    ELSE [cfg |-> [normalizeConfig(c) EXCEPT
                        !.CustomProviders = MapPut(@, TrimSpace(name), input)],
          err |-> NoErr]

\* Config.AddCustomProvider: the configuration afterwards and the error
AddCustomProvider(c, name, input) ==
    LET n == ToLower(TrimSpace(name))
        filled ==
            [input EXCEPT
                !.BaseURL    = TrimSlash(TrimSpace(@)),
                !.ModelsPath = IF TrimSpace(@) = <<>> THEN DefaultModelsPath ELSE @,
                !.ChatPath   = IF TrimSpace(@) = <<>> THEN DefaultChatPath ELSE @,
                !.AuthHeader = IF TrimSpace(@) = <<>> THEN DefaultAuthHeader ELSE @,
                !.AuthPrefix = IF @ = <<>> THEN DefaultAuthPrefix ELSE @]
    IN  IF n = <<>>
        THEN [cfg |-> c, err |-> <<"provider name is required">>]
        ELSE IF IsBuiltinProvider(n)
        THEN [cfg |-> c, err |-> Quoted(n) \o <<" is a built-in provider">>]
        ELSE IF TrimSpace(input.BaseURL) = <<>>
        THEN [cfg |-> c, err |-> <<"base_url is required">>]
        ELSE [cfg |-> [normalizeConfig(c) EXCEPT
                            !.CustomProviders = MapPut(@, n, filled)],
              err |-> NoErr]

\* Config.RemoveCustomProvider: the configuration afterwards and the error
RemoveCustomProvider(c, name) ==
    LET n == ToLower(TrimSpace(name))
    IN  IF n = <<>>
        THEN [cfg |-> c, err |-> <<"provider name is required">>]
        ELSE IF IsBuiltinProvider(n)
        THEN [cfg |-> c, err |-> <<"cannot remove built-in provider">>]
        ELSE IF n \notin DOMAIN c.CustomProviders
        THEN [cfg |-> c, err |-> <<"provider ">> \o Quoted(n) \o <<" not found">>]
        ELSE [cfg |-> [c EXCEPT
                            !.CustomProviders = MapDelete(@, n),
                            !.CurrentProvider = IF @ = n THEN <<>> ELSE @],
              err |-> NoErr]

\* os.Getenv(name) in the environment env: the empty string when unset
Getenv(env, name) == MapGet(env, name, <<>>)

\* the value of the environment variable named by name, trimmed; empty when
\* the name is blank
envKey(env, name) ==
    IF TrimSpace(name) = <<>> THEN <<>>
    ELSE TrimSpace(Getenv(env, TrimSpace(name)))

\* Config.ResolveAPIKey that also stores the key it resolved
ResolveAPIKey_StoresKey(c, env, provider) ==
    LET p     == ToLower(TrimSpace(provider))
        entry == MapGet(c.Providers, p, NoProviderConfig)
        k     == IF envKey(env, entry.APIKeyEnv) # <<>> THEN envKey(env, entry.APIKeyEnv)
                 ELSE TrimSpace(entry.APIKey)
    IN  IF p = <<>> THEN [key |-> <<>>, cfg |-> c]
        ELSE [key |-> k, cfg |-> setField(c, p, "APIKey", k)]

\* Config.ResolveAPIKey in the environment env: the key returned and the
\* configuration afterwards
ResolveAPIKey(c, env, provider) ==
    LET p      == ToLower(TrimSpace(provider))
        custom == c.CustomProviders[p]
        entry     == MapGet(c.Providers, p, NoProviderConfig)
    IN  [cfg |-> c,
         key |->
            IF p = <<>> THEN <<>>
            ELSE IF p \in DOMAIN c.CustomProviders
            THEN IF envKey(env, custom.APIKeyEnv) # <<>>
                 THEN envKey(env, custom.APIKeyEnv)
                 ELSE TrimSpace(custom.APIKey)
            ELSE IF envKey(env, entry.APIKeyEnv) # <<>>
            THEN envKey(env, entry.APIKeyEnv)
            ELSE IF IsBuiltinProvider(p)
                    /\ envKey(env, builtinProviders[p].APIKeyEnv) # <<>>
            THEN envKey(env, builtinProviders[p].APIKeyEnv)
            ELSE TrimSpace(entry.APIKey)]

\* the configuration as compactForSave leaves it
compactForSave(c) ==
    LET providers ==
            {p \in DOMAIN c.Providers :
                /\ ToLower(TrimSpace(p)) # <<>>
                /\ \/ TrimSpace(c.Providers[p].APIKey) # <<>>
                   \/ TrimSpace(c.Providers[p].Model) # <<>>
                   \/ TrimSlash(TrimSpace(c.Providers[p].BaseURL)) # <<>>
                   \/ TrimSpace(c.Providers[p].APIKeyEnv) # <<>>}
        customs ==
            {p \in DOMAIN c.CustomProviders :
                /\ ToLower(TrimSpace(p)) # <<>>
                /\ TrimSlash(TrimSpace(c.CustomProviders[p].BaseURL)) # <<>>}
        reset(v, default) == IF v = default THEN <<>> ELSE v
        raw(set, map, name) == map[CHOOSE p \in set : ToLower(TrimSpace(p)) = name]
        header(h) ==
            {k \in DOMAIN h : TrimSpace(k) # <<>> /\ TrimSpace(h[k]) # <<>>}
    IN  [c EXCEPT
            !.CurrentModels = NoMap,
            !.Providers =
                [name \in {ToLower(TrimSpace(p)) : p \in providers} |->
                    LET r == raw(providers, c.Providers, name)
                    IN  [APIKey    |-> TrimSpace(r.APIKey),
                         Model     |-> TrimSpace(r.Model),
                         BaseURL   |-> TrimSlash(TrimSpace(r.BaseURL)),
                         APIKeyEnv |-> TrimSpace(r.APIKeyEnv)]],
            !.CustomProviders =
                [name \in {ToLower(TrimSpace(p)) : p \in customs} |->
                    LET r == raw(customs, c.CustomProviders, name)
                    IN  [BaseURL    |-> TrimSlash(TrimSpace(r.BaseURL)),
                         APIKey     |-> TrimSpace(r.APIKey),
                         Model      |-> TrimSpace(r.Model),
                         APIKeyEnv  |-> TrimSpace(r.APIKeyEnv),
                         ModelsPath |-> reset(TrimSpace(r.ModelsPath),
                                              DefaultModelsPath),
                         ChatPath   |-> reset(TrimSpace(r.ChatPath),
                                              DefaultChatPath),
                         AuthHeader |-> reset(TrimSpace(r.AuthHeader),
                                              DefaultAuthHeader),
                         AuthPrefix |-> reset(r.AuthPrefix, DefaultAuthPrefix),
                         Headers    |->
                            [k \in {TrimSpace(h) : h \in header(r.Headers)} |->
                                TrimSpace(r.Headers[CHOOSE h \in header(r.Headers) :
                                                        TrimSpace(h) = k])]]],
            !.OllamaHost =
                reset(TrimSlash(TrimSpace(@)),
                      TrimSlash(builtinProviders[Ollama].BaseURL))]

\* json.Marshal of a configuration: the document written to config.json.
\* A member with omitempty is left out when it is empty, which a map with no
\* entries and an empty string stand for here
MarshalConfig(c) ==
    [version          |-> c.Version,
     current_provider |-> c.CurrentProvider,
     current_models   |-> c.CurrentModels,
     providers        |->
        [p \in DOMAIN c.Providers |->
            [api_key     |-> c.Providers[p].APIKey,
             model       |-> c.Providers[p].Model,
             base_url    |-> c.Providers[p].BaseURL,
             api_key_env |-> c.Providers[p].APIKeyEnv]],
     custom_providers |->
        [p \in DOMAIN c.CustomProviders |->
            [base_url    |-> c.CustomProviders[p].BaseURL,
             api_key     |-> c.CustomProviders[p].APIKey,
             model       |-> c.CustomProviders[p].Model,
             api_key_env |-> c.CustomProviders[p].APIKeyEnv,
             models_path |-> c.CustomProviders[p].ModelsPath,
             chat_path   |-> c.CustomProviders[p].ChatPath,
             auth_header |-> c.CustomProviders[p].AuthHeader,
             auth_prefix |-> c.CustomProviders[p].AuthPrefix,
             headers     |-> c.CustomProviders[p].Headers]],
     ollama_host      |-> c.OllamaHost,
     render_markdown  |-> c.RenderMarkdown]

\* json.Unmarshal of the document doc into the configuration c: a member
\* of the document replaces the field, an entry of a map of the document
\* replaces the entry of that key, and every other entry of c stays
UnmarshalConfig(doc, c) ==
    [Version         |-> doc.version,
     CurrentProvider |-> doc.current_provider,
     CurrentModels   |-> doc.current_models @@ c.CurrentModels,
     Providers       |->
        [p \in DOMAIN doc.providers |->
            [APIKey    |-> doc.providers[p].api_key,
             Model     |-> doc.providers[p].model,
             BaseURL   |-> doc.providers[p].base_url,
             APIKeyEnv |-> doc.providers[p].api_key_env]] @@ c.Providers,
     CustomProviders |->
        [p \in DOMAIN doc.custom_providers |->
            [BaseURL    |-> doc.custom_providers[p].base_url,
             APIKey     |-> doc.custom_providers[p].api_key,
             Model      |-> doc.custom_providers[p].model,
             APIKeyEnv  |-> doc.custom_providers[p].api_key_env,
             ModelsPath |-> doc.custom_providers[p].models_path,
             ChatPath   |-> doc.custom_providers[p].chat_path,
             AuthHeader |-> doc.custom_providers[p].auth_header,
             AuthPrefix |-> doc.custom_providers[p].auth_prefix,
             Headers    |-> doc.custom_providers[p].headers]]
            @@ c.CustomProviders,
     OllamaHost      |-> IF doc.ollama_host = <<>> THEN c.OllamaHost
                         ELSE doc.ollama_host,
     RenderMarkdown  |-> doc.render_markdown]

\* the file config.json before it is written
NoFile == [exists |-> FALSE, doc |-> MarshalConfig(DefaultConfig)]

\* config.Save when the write succeeds (ok) or fails: the configuration
\* afterwards, the file afterwards and the error
Save(file, c, ok) ==
    IF ok
    THEN [cfg  |-> normalizeConfig(c),
          file |-> [exists |-> TRUE,
                    doc    |-> MarshalConfig(compactForSave(normalizeConfig(c)))],
          err  |-> NoErr]
    ELSE [cfg |-> normalizeConfig(c), file |-> file,
          err |-> <<"write temp config: ">>]

\* config.Load: the configuration and the error
Load(file) ==
    IF ~file.exists
    THEN [cfg |-> DefaultConfig, err |-> <<"config file not found">>]
    ELSE [cfg |-> normalizeConfig(UnmarshalConfig(file.doc, DefaultConfig)),
          err |-> NoErr]

----------------------------------------------------------------------------
(* The configuration: operations applied to the default configuration *)

Mine == <<"m", "i", "n", "e">>

\* the provider names given to the operations
ConfigNames == {OpenAI, Ollama, <<SP, "M", "i", "n", "e">>}

ConfigModels == {<<>>, <<"m", SP>>}

ConfigKeys == {<<SP, "k">>}

ConfigEnvVars == {<<>>, <<"MY_KEY">>}

ConfigURLs == {<<"u", "/">>}

\* what `ask provider add` or a caller passes to AddCustomProvider
CustomInputs ==
    {[NoCustomProvider EXCEPT !.BaseURL = <<"u", "/">>],
     [NoCustomProvider EXCEPT !.BaseURL = <<SP>>, !.ChatPath = <<"/c">>],
     [NoCustomProvider EXCEPT !.BaseURL = <<"u">>, !.APIKey = <<"c", "k", SP>>,
                              !.APIKeyEnv = <<"MY_KEY">>, !.ModelsPath = <<SP>>,
                              !.ChatPath = <<"/c">>, !.AuthHeader = <<"X-Key">>,
                              !.AuthPrefix = <<SP>>]}

CustomNames == {<<SP, "M", "i", "n", "e">>, <<"O", "p", "e", "n", "A", "I">>, <<SP>>}

\* the environments of the process
Environments ==
    {NoMap,
     <<"OPENAI_API_KEY">> :> <<SP, "d", SP>>,
     <<"MY_KEY">> :> <<"e">>,
     (<<"MY_KEY">> :> <<"e", NL>>) @@ (<<"OPENAI_API_KEY">> :> <<"d">>),
     (<<"MY_KEY">> :> <<SP>>) @@ (<<"OPENAI_API_KEY">> :> <<"d">>)}

MaxOps == 2

\* the default configuration before any operation
NoConf ==
    [steps |-> 0, op |-> "none", name |-> <<>>, input |-> NoCustomProvider,
     before |-> DefaultConfig, cfg |-> DefaultConfig, err |-> NoErr,
     env |-> NoMap, key |-> <<>>, file |-> NoFile, loaded |-> DefaultConfig]

\* a caller applies one more operation to the configuration
Applied(name, provider, after, err) ==
    [conf EXCEPT !.steps = @ + 1, !.op = name, !.name = provider,
                 !.before = conf.cfg, !.cfg = after, !.err = err]

MayApply == conf.steps < MaxOps /\ ~conf.file.exists /\ conf.op # "ResolveAPIKey"

CallSetCurrentProvider ==
    /\ MayApply
    /\ \E p \in ConfigNames :
        conf' = Applied("SetCurrentProvider", p,
                        SetCurrentProvider(conf.cfg, p), NoErr)
    /\ UNCHANGED <<spin, reply, timed, opts, client, pc, op, req, sent, recv, inflight, result, calls, lookup, cli>>

CallSetModel ==
    /\ MayApply
    /\ \E p \in ConfigNames, m \in ConfigModels :
        conf' = Applied("SetModel", p, SetModel(conf.cfg, p, m), NoErr)
    /\ UNCHANGED <<spin, reply, timed, opts, client, pc, op, req, sent, recv, inflight, result, calls, lookup, cli>>

CallSetAPIKey ==
    /\ MayApply
    /\ \E p \in ConfigNames, k \in ConfigKeys :
        conf' = Applied("SetAPIKey", p, SetAPIKey(conf.cfg, p, k), NoErr)
    /\ UNCHANGED <<spin, reply, timed, opts, client, pc, op, req, sent, recv, inflight, result, calls, lookup, cli>>

CallSetAPIKeyEnv ==
    /\ MayApply
    /\ \E p \in ConfigNames, e \in ConfigEnvVars :
        conf' = Applied("SetAPIKeyEnv", p, SetAPIKeyEnv(conf.cfg, p, e), NoErr)
    /\ UNCHANGED <<spin, reply, timed, opts, client, pc, op, req, sent, recv, inflight, result, calls, lookup, cli>>

CallSetBaseURL ==
    /\ MayApply
    /\ \E p \in ConfigNames, u \in ConfigURLs :
        conf' = Applied("SetBaseURL", p, SetBaseURL(conf.cfg, p, u), NoErr)
    /\ UNCHANGED <<spin, reply, timed, opts, client, pc, op, req, sent, recv, inflight, result, calls, lookup, cli>>

CallAddCustomProvider ==
    /\ MayApply
    /\ \E p \in CustomNames, input \in CustomInputs :
        \E r \in {AddCustomProvider(conf.cfg, p, input)} :
            conf' = [Applied("AddCustomProvider", p, r.cfg, r.err)
                        EXCEPT !.input = input]
    /\ UNCHANGED <<spin, reply, timed, opts, client, pc, op, req, sent, recv, inflight, result, calls, lookup, cli>>

CallRemoveCustomProvider ==
    /\ MayApply
    /\ \E p \in CustomNames :
        \E r \in {RemoveCustomProvider(conf.cfg, p)} :
            conf' = Applied("RemoveCustomProvider", p, r.cfg, r.err)
    /\ UNCHANGED <<spin, reply, timed, opts, client, pc, op, req, sent, recv, inflight, result, calls, lookup, cli>>

\* a caller resolves the API key of a provider in some environment
CallResolveAPIKey ==
    /\ ~conf.file.exists /\ conf.op # "ResolveAPIKey"
    /\ \E p \in ConfigNames \cup {Mine, <<>>}, env \in Environments :
        \E r \in {ResolveAPIKey(conf.cfg, env, p)} :
            conf' = [conf EXCEPT !.op = "ResolveAPIKey", !.name = p,
                                 !.before = conf.cfg, !.cfg = r.cfg,
                                 !.env = env, !.key = r.key, !.err = NoErr]
    /\ UNCHANGED <<spin, reply, timed, opts, client, pc, op, req, sent, recv, inflight, result, calls, lookup, cli>>

\* a caller saves the configuration to config.json
CallSave ==
    /\ ~conf.file.exists /\ conf.op \notin {"ResolveAPIKey", "Save"}
    /\ \E ok \in BOOLEAN :
        \E r \in {Save(conf.file, conf.cfg, ok)} :
            conf' = [conf EXCEPT !.op = "Save", !.before = conf.cfg,
                                 !.cfg = r.cfg, !.file = r.file, !.err = r.err]
    /\ UNCHANGED <<spin, reply, timed, opts, client, pc, op, req, sent, recv, inflight, result, calls, lookup, cli>>

\* a caller loads config.json
CallLoad ==
    /\ conf.op = "Save"
    /\ \E r \in {Load(conf.file)} :
        conf' = [conf EXCEPT !.op = "Load", !.loaded = r.cfg, !.err = r.err]
    /\ UNCHANGED <<spin, reply, timed, opts, client, pc, op, req, sent, recv, inflight, result, calls, lookup, cli>>

----------------------------------------------------------------------------
(* The command line: the time an Ask call may take *)

\* the Timeout of the http.Client that defaultHTTPClient builds, in seconds
HTTPClientTimeout == 60

\* the values of --timeout given on the command line; without the option the
\* timeout is DefaultTimeout
TimeoutValues == {<<"3", "0">>, <<"6", "0", "s">>, <<"2", "m">>, <<"0">>}

\* the HTTP attempts one Ask makes at most: the request and its fallback
MaxAttempts == 2

\* no Ask call under way
NoTimed ==
    [stage |-> "none", timeout |-> DefaultTimeout, clock |-> 0, attempt |-> 0,
     attemptStart |-> 0, cause |-> NoErr]

\* runAsk reaches client.Ask: context.WithTimeout(ctx, opts.Timeout) starts
\* the deadline of the call, and the client sends its first HTTP request with
\* the http.Client of defaultHTTPClient
TimedAsk ==
    /\ timed.stage = "none"
    /\ \E t \in {DefaultTimeout}
                \cup {parseDuration(v).d : v \in {w \in TimeoutValues :
                                                parseDuration(w).err = NoErr}} :
        timed' = [NoTimed EXCEPT !.stage = "waiting", !.timeout = t,
                                 !.attempt = 1]
    /\ UNCHANGED <<spin, reply, opts, client, pc, op, req, sent, recv, inflight, result, calls, lookup, cli, conf>>

\* ten seconds pass while the HTTP request is unanswered and no timer is due
TimePasses ==
    /\ timed.stage = "waiting"
    /\ timed.clock < timed.timeout
    /\ timed.clock - timed.attemptStart < HTTPClientTimeout
    /\ timed' = [timed EXCEPT !.clock = @ + 10]
    /\ UNCHANGED <<spin, reply, opts, client, pc, op, req, sent, recv, inflight, result, calls, lookup, cli, conf>>

\* the provider answers the HTTP request; final tells whether Ask returns on
\* this answer or sends the fallback request
Answered ==
    /\ timed.stage = "waiting"
    /\ \E final \in BOOLEAN :
        timed' = IF final \/ timed.attempt = MaxAttempts
                 THEN [timed EXCEPT !.stage = "answered"]
                 ELSE [timed EXCEPT !.attempt = @ + 1,
                                    !.attemptStart = timed.clock]
    /\ UNCHANGED <<spin, reply, opts, client, pc, op, req, sent, recv, inflight, result, calls, lookup, cli, conf>>

\* the deadline of the context of runAsk passes: the request is aborted
ContextDeadline ==
    /\ timed.stage = "waiting"
    /\ timed.clock >= timed.timeout
    /\ timed' = [timed EXCEPT !.stage = "aborted",
                              !.cause = <<"context deadline exceeded">>]
    /\ UNCHANGED <<spin, reply, opts, client, pc, op, req, sent, recv, inflight, result, calls, lookup, cli, conf>>

\* the Timeout of the http.Client passes for the request under way: the
\* request is aborted
ClientTimeout ==
    /\ timed.stage = "waiting"
    /\ timed.clock - timed.attemptStart >= HTTPClientTimeout
    /\ timed' = [timed EXCEPT !.stage = "aborted",
                              !.cause = <<"Client.Timeout exceeded while awaiting headers">>]
    /\ UNCHANGED <<spin, reply, opts, client, pc, op, req, sent, recv, inflight, result, calls, lookup, cli, conf>>

\* runAsk returns; the next run starts afresh
TimedReturn ==
    /\ timed.stage \in {"answered", "aborted"}
    /\ timed' = NoTimed
    /\ UNCHANGED <<spin, reply, opts, client, pc, op, req, sent, recv, inflight, result, calls, lookup, cli, conf>>

----------------------------------------------------------------------------
(* The assistant's response: the replies given to Parse *)

\* the atoms of a reply: braces, a quote, a backslash, a letter, a space,
\* whole JSON objects and the JSON literal null
ReplyAtoms == {"{", "}", "\"", "\\", "x", SP, ObjLs, ObjPadded, "null"}

MaxReply == 4

Replies == StrOver(ReplyAtoms, MaxReply)

\* a reply not yet parsed
NoReply == [text |-> <<>>, called |-> FALSE, r |-> NoResponse, err |-> NoErr]

\* runAsk gives the reply of the model to assistant.Parse
CallParse ==
    /\ ~reply.called
    /\ \E p \in {Parse(reply.text)} :
        reply' = [reply EXCEPT !.called = TRUE, !.r = p.r, !.err = p.err]
    /\ UNCHANGED <<spin, opts, client, pc, op, req, sent, recv, inflight, result, calls, lookup, cli, conf, timed>>

----------------------------------------------------------------------------
(* The command line: the spinner *)

spinnerFrames == <<"|", "/", "-", "\\">>

\* the labels given to startSpinner
SpinnerLabels == {<<>>, <<SP, "h", "i", SP>>, <<"T", "h", "i", "n", "k", "i", "n", "g">>}

\* the callers of the function that startSpinner returned
Stoppers == {"s1", "s2"}

\* the ticks of the ticker that are followed; the goroutine renders once
\* more than that at most
MaxTicks == 2

\* the label the spinner shows
spinnerLabel(label) ==
    IF TrimSpace(label) = <<>> THEN <<"L", "o", "a", "d", "i", "n", "g">>
    ELSE TrimSpace(label)

\* what render writes for the frame number frame (counted from 0)
render(frame, label) ==
    <<"\r", spinnerFrames[(frame % Len(spinnerFrames)) + 1], SP>> \o label

\* what the goroutine writes when done is closed
clearSequence(label) ==
    <<"\r">> \o [i \in 1..(Len(label) + 4) |-> SP] \o <<"\r">>

\* no spinner started
NoSpin ==
    [started |-> FALSE, enabled |-> FALSE, label |-> <<>>, gpc |-> "none",
     done |-> FALSE, tick |-> 0, ticks |-> 0, frame |-> 0, wg |-> 0,
     once |-> "new", stop |-> [c \in Stoppers |-> "idle"],
     out |-> <<>>, outAtReturn |-> [c \in Stoppers |-> 0],
     panicked |-> FALSE]

\* startSpinner(enabled, w, label); hasWriter tells whether w is not nil
StartSpinner ==
    /\ ~spin.started
    /\ \E enabled, hasWriter \in BOOLEAN, label \in SpinnerLabels :
        spin' = IF ~enabled \/ ~hasWriter
                THEN [spin EXCEPT !.started = TRUE, !.label = label]
                ELSE [spin EXCEPT !.started = TRUE, !.enabled = TRUE,
                                  !.label = spinnerLabel(label),
                                  !.wg = 1, !.gpc = "start"]
    /\ UNCHANGED <<opts, client, pc, op, req, sent, recv, inflight, result, calls, lookup, cli, conf, timed, reply>>

\* the goroutine starts: it renders the first frame
SpinnerStarts ==
    /\ spin.gpc = "start"
    /\ spin' = [spin EXCEPT !.out = Append(@, render(spin.frame, spin.label)),
                            !.frame = @ + 1, !.gpc = "select"]
    /\ UNCHANGED <<opts, client, pc, op, req, sent, recv, inflight, result, calls, lookup, cli, conf, timed, reply>>

\* spinnerTickInterval passes: the ticker puts a tick in its channel, which
\* holds one
TickerTicks ==
    /\ spin.gpc \in {"start", "select"}
    /\ spin.tick = 0
    /\ spin.ticks < MaxTicks
    /\ spin' = [spin EXCEPT !.tick = 1, !.ticks = @ + 1]
    /\ UNCHANGED <<opts, client, pc, op, req, sent, recv, inflight, result, calls, lookup, cli, conf, timed, reply>>

\* the select of the goroutine takes the tick: it renders the next frame
SpinnerRenders ==
    /\ spin.gpc = "select"
    /\ spin.tick = 1
    /\ spin' = [spin EXCEPT !.out = Append(@, render(spin.frame, spin.label)),
                            !.frame = @ + 1, !.tick = 0]
    /\ UNCHANGED <<opts, client, pc, op, req, sent, recv, inflight, result, calls, lookup, cli, conf, timed, reply>>

\* the select of the goroutine takes the closed done: it clears the line and
\* returns, which runs wg.Done()
SpinnerClears ==
    /\ spin.gpc = "select"
    /\ spin.done
    /\ spin' = [spin EXCEPT !.out = Append(@, clearSequence(spin.label)),
                            !.gpc = "exited", !.wg = @ - 1]
    /\ UNCHANGED <<opts, client, pc, op, req, sent, recv, inflight, result, calls, lookup, cli, conf, timed, reply>>

\* sync.Once.Do always running the function
onceDo_Always(once) == "run"

\* sync.Once.Do for a caller that arrives when the Once is new, when another
\* caller is running the function, and when the function has returned
onceDo(once) ==
    CASE once = "new"     -> "run"
      [] once = "running" -> "block"
      [] OTHER            -> "return"

\* the caller c returns from stop()
stopReturns(c) ==
    [spin EXCEPT !.stop[c] = "returned", !.outAtReturn[c] = Len(spin.out)]

\* a caller calls stop(): the function of a disabled spinner does nothing,
\* that of an enabled one enters once.Do
CallStop(c) ==
    /\ spin.started
    /\ spin.stop[c] = "idle"
    /\ spin' = IF ~spin.enabled THEN stopReturns(c)
               ELSE CASE onceDo(spin.once) = "run" ->
                            [spin EXCEPT !.stop[c] = "closing",
                                         !.once = "running"]
                      [] onceDo(spin.once) = "block" ->
                            [spin EXCEPT !.stop[c] = "blocked"]
                      [] OTHER -> stopReturns(c)
    /\ UNCHANGED <<opts, client, pc, op, req, sent, recv, inflight, result, calls, lookup, cli, conf, timed, reply>>

\* close(done); closing a closed channel panics
CloseDone(c) ==
    /\ spin.stop[c] = "closing"
    /\ spin' = IF spin.done
               THEN [spin EXCEPT !.stop[c] = "panicked", !.panicked = TRUE]
               ELSE [spin EXCEPT !.stop[c] = "waiting", !.done = TRUE]
    /\ UNCHANGED <<opts, client, pc, op, req, sent, recv, inflight, result, calls, lookup, cli, conf, timed, reply>>

\* wg.Wait() returns, then once.Do and stop()
WaitReturns(c) ==
    /\ spin.stop[c] = "waiting"
    /\ spin.wg = 0
    /\ spin' = [stopReturns(c) EXCEPT !.once = "done"]
    /\ UNCHANGED <<opts, client, pc, op, req, sent, recv, inflight, result, calls, lookup, cli, conf, timed, reply>>

\* once.Do returns for a caller that waited for the one running the function
OnceReleases(c) ==
    /\ spin.stop[c] = "blocked"
    /\ spin.once = "done"
    /\ spin' = stopReturns(c)
    /\ UNCHANGED <<opts, client, pc, op, req, sent, recv, inflight, result, calls, lookup, cli, conf, timed, reply>>

----------------------------------------------------------------------------
(* The command line: `ask provider set`, `add` and `remove` *)

\* the names typed after `ask provider set`, `add` and `remove`
TypedNames == {<<SP, "M", "i", "n", "e">>, <<"O", "p", "e", "n", "A", "I">>, <<"x">>}

\* the values typed after --base-url
TypedURLs == {<<"u", "/">>, <<"/">>, <<>>}

MaxCommands == 3

\* cli.Run up to dispatch: the configuration is loaded and, when there was
\* no file, saved; ok tells whether writing the file succeeds
startApp(file, ok) ==
    LET l == Load(file)
        s == Save(file, l.cfg, ok)
    IN  IF ~file.exists THEN [cfg |-> s.cfg, file |-> s.file, err |-> s.err]
        ELSE [cfg |-> l.cfg, file |-> file, err |-> NoErr]

\* the end of a command that changed the configuration: a.saveConfig()
saveConfig(file, r, ok) ==
    IF r.err # NoErr THEN [cfg |-> r.cfg, file |-> file, err |-> r.err]
    ELSE Save(file, r.cfg, ok)

\* `ask provider set <name>` on the configuration c
providerSet(c, arg) ==
    LET name == ToLower(TrimSpace(arg))
    IN  IF ~ConfigProviderExists(c, name)
        THEN [cfg |-> c, err |-> <<"provider ">> \o Quoted(name)
                                    \o <<" is not configured">>]
        ELSE [cfg |-> SetCurrentProvider(c, name), err |-> NoErr]

\* `ask provider add <name> --base-url <url>` on the configuration c
providerAdd(c, arg, url) ==
    LET name == ToLower(TrimSpace(arg))
    IN  IF name = <<>> THEN [cfg |-> c, err |-> <<"provider name is required">>]
        ELSE AddCustomProvider(c, name,
                [NoCustomProvider EXCEPT !.BaseURL = TrimSpace(url)])

\* `ask provider remove <name>` on the configuration c
providerRemove(c, arg) == RemoveCustomProvider(c, ToLower(TrimSpace(arg)))

\* one run of `ask provider ...`: the command cmd applied to the
\* configuration that startApp loaded, then saved
providerCommand(name, arg, cmd(_), ok) ==
    \E app \in {startApp(conf.file, ok)} :
        IF app.err # NoErr
        THEN conf' = [conf EXCEPT !.steps = @ + 1, !.op = name, !.name = arg,
                                  !.before = app.cfg, !.cfg = app.cfg,
                                  !.err = app.err]
        ELSE \E done \in {saveConfig(app.file, cmd(app.cfg), ok)} :
                conf' = [conf EXCEPT !.steps = @ + 1, !.op = name, !.name = arg,
                                     !.before = app.cfg, !.cfg = done.cfg,
                                     !.file = done.file, !.err = done.err]

ProviderSet ==
    /\ conf.steps < MaxCommands
    /\ \E arg \in TypedNames, ok \in BOOLEAN :
        LET cmd(c) == providerSet(c, arg)
        IN  providerCommand("provider set", arg, cmd, ok)
    /\ UNCHANGED <<opts, client, pc, op, req, sent, recv, inflight, result, calls, lookup, cli, timed, reply, spin>>

ProviderAdd ==
    /\ conf.steps < MaxCommands
    /\ \E arg \in TypedNames, url \in TypedURLs, ok \in BOOLEAN :
        LET cmd(c) == providerAdd(c, arg, url)
        IN  providerCommand("provider add", arg, cmd, ok)
    /\ UNCHANGED <<opts, client, pc, op, req, sent, recv, inflight, result, calls, lookup, cli, timed, reply, spin>>

ProviderRemove ==
    /\ conf.steps < MaxCommands
    /\ \E arg \in TypedNames, ok \in BOOLEAN :
        LET cmd(c) == providerRemove(c, arg)
        IN  providerCommand("provider remove", arg, cmd, ok)
    /\ UNCHANGED <<opts, client, pc, op, req, sent, recv, inflight, result, calls, lookup, cli, timed, reply, spin>>

----------------------------------------------------------------------------
(* The caller *)

\* the call has returned; the client is ready for the next call
Return ==
    /\ pc = "done"
    /\ pc' = "idle"
    /\ op' = "none"
    /\ req' = NoRequest
    /\ sent' = <<>>
    /\ recv' = <<>>
    /\ result' = NoResult
    /\ UNCHANGED <<spin, reply, timed, conf, calls, lookup, cli, opts, client, inflight>>

Init ==
    /\ opts \in ClientOptions
    /\ client \in Constructed(opts)
    /\ pc = "idle"
    /\ op = "none"
    /\ req = NoRequest
    /\ sent = <<>>
    /\ recv = <<>>
    /\ inflight = 0
    /\ result = NoResult
    /\ calls = IdleCalls
    /\ lookup = NoLookup
    /\ cli = NoRun
    /\ conf = NoConf
    /\ timed = NoTimed
    /\ reply = NoReply
    /\ spin = NoSpin

Next ==
    \/ OpenAIAsk
    \/ OpenAIAskFirstResponse
    \/ OpenAIAskRetryResponse
    \/ OpenAIListModels
    \/ OpenAIListModelsResponse
    \/ AnthropicAsk
    \/ AnthropicAskResponse
    \/ AnthropicListModels
    \/ AnthropicListModelsResponse
    \/ GeminiAsk
    \/ GeminiAskFirstResponse
    \/ GeminiAskRetryResponse
    \/ GeminiListModels
    \/ GeminiListModelsResponse
    \/ OllamaAsk
    \/ OllamaAskResponse
    \/ OllamaListModels
    \/ OllamaListModelsResponse
    \/ Return

Spec == Init /\ [][Next]_vars

\* one client shared by the concurrent callers
InitShared ==
    /\ opts \in SharedOptions
    /\ client \in Constructed(opts)
    /\ pc = "idle"
    /\ op = "none"
    /\ req = NoRequest
    /\ sent = <<>>
    /\ recv = <<>>
    /\ inflight = 0
    /\ result = NoResult
    /\ calls = IdleCalls
    /\ lookup = NoLookup
    /\ cli = NoRun
    /\ conf = NoConf
    /\ timed = NoTimed
    /\ reply = NoReply
    /\ spin = NoSpin

NextShared ==
    \/ \E p \in Callers : SharedAsk(p)
    \/ \E p \in Callers : SharedListModels(p)
    \/ \E p \in Callers : SharedAskResponse(p)
    \/ \E p \in Callers : SharedListModelsResponse(p)
    \/ \E p \in Callers : Cancel(p)
    \/ \E p \in Callers : SharedReturn(p)
    \/ CallerMutatesHeaders

SpecShared == InitShared /\ [][NextShared]_vars

\* a caller about to resolve a provider name
InitRegistry ==
    /\ opts \in ClientOptions
    /\ lookup \in {[NoLookup EXCEPT !.name = n] : n \in ProviderNames}
    /\ client = NoClient
    /\ pc = "idle"
    /\ op = "none"
    /\ req = NoRequest
    /\ sent = <<>>
    /\ recv = <<>>
    /\ inflight = 0
    /\ result = NoResult
    /\ calls = IdleCalls
    /\ cli = NoRun
    /\ conf = NoConf
    /\ timed = NoTimed
    /\ reply = NoReply
    /\ spin = NoSpin

NextRegistry ==
    \/ CallNew
    \/ NextName

SpecRegistry == InitRegistry /\ [][NextRegistry]_vars

\* a user about to start `ask`
InitCLI ==
    /\ cli = NoRun
    /\ opts \in [APIKey : {<<>>}, BaseURL : {"BASE"}, Headers : {NoHeaders}]
    /\ lookup = NoLookup
    /\ client = NoClient
    /\ pc = "idle"
    /\ op = "none"
    /\ req = NoRequest
    /\ sent = <<>>
    /\ recv = <<>>
    /\ inflight = 0
    /\ result = NoResult
    /\ calls = IdleCalls
    /\ conf = NoConf
    /\ timed = NoTimed
    /\ reply = NoReply
    /\ spin = NoSpin

NextCLI ==
    \/ Run
    \/ AskReturns
    \/ Enter
    \/ Interrupt
    \/ EOF
    \/ ReadError
    \/ Exit

SpecCLI == InitCLI /\ [][NextCLI]_vars

\* callers of the config package, starting from the default configuration
InitConfig ==
    /\ opts = [APIKey |-> <<>>, BaseURL |-> "BASE", Headers |-> NoHeaders]
    /\ client = NoClient
    /\ pc = "idle"
    /\ op = "none"
    /\ req = NoRequest
    /\ sent = <<>>
    /\ recv = <<>>
    /\ inflight = 0
    /\ result = NoResult
    /\ calls = IdleCalls
    /\ lookup = NoLookup
    /\ cli = NoRun
    /\ conf = NoConf
    /\ timed = NoTimed
    /\ reply = NoReply
    /\ spin = NoSpin

NextConfig ==
    \/ CallSetCurrentProvider
    \/ CallSetModel
    \/ CallSetAPIKey
    \/ CallSetAPIKeyEnv
    \/ CallSetBaseURL
    \/ CallAddCustomProvider
    \/ CallRemoveCustomProvider
    \/ CallResolveAPIKey
    \/ CallSave
    \/ CallLoad

SpecConfig == InitConfig /\ [][NextConfig]_vars

\* one Ask call of the command line against the clock
InitTimed ==
    /\ opts = [APIKey |-> <<>>, BaseURL |-> "BASE", Headers |-> NoHeaders]
    /\ client = NoClient
    /\ pc = "idle"
    /\ op = "none"
    /\ req = NoRequest
    /\ sent = <<>>
    /\ recv = <<>>
    /\ inflight = 0
    /\ result = NoResult
    /\ calls = IdleCalls
    /\ lookup = NoLookup
    /\ cli = NoRun
    /\ conf = NoConf
    /\ timed = NoTimed
    /\ reply = NoReply
    /\ spin = NoSpin

NextTimed ==
    \/ TimedAsk
    \/ TimePasses
    \/ Answered
    \/ ContextDeadline
    \/ ClientTimeout
    \/ TimedReturn

SpecTimed == InitTimed /\ [][NextTimed]_vars

\* assistant.Parse on the replies of a model
InitParse ==
    /\ opts = [APIKey |-> <<>>, BaseURL |-> "BASE", Headers |-> NoHeaders]
    /\ client = NoClient
    /\ pc = "idle"
    /\ op = "none"
    /\ req = NoRequest
    /\ sent = <<>>
    /\ recv = <<>>
    /\ inflight = 0
    /\ result = NoResult
    /\ calls = IdleCalls
    /\ lookup = NoLookup
    /\ cli = NoRun
    /\ conf = NoConf
    /\ timed = NoTimed
    /\ reply \in {[NoReply EXCEPT !.text = t] : t \in Replies}
    /\ spin = NoSpin

NextParse == CallParse

SpecParse == InitParse /\ [][NextParse]_vars

\* a spinner, its goroutine and the callers of stop
InitSpinner ==
    /\ opts = [APIKey |-> <<>>, BaseURL |-> "BASE", Headers |-> NoHeaders]
    /\ client = NoClient
    /\ pc = "idle"
    /\ op = "none"
    /\ req = NoRequest
    /\ sent = <<>>
    /\ recv = <<>>
    /\ inflight = 0
    /\ result = NoResult
    /\ calls = IdleCalls
    /\ lookup = NoLookup
    /\ cli = NoRun
    /\ conf = NoConf
    /\ timed = NoTimed
    /\ reply = NoReply
    /\ spin = NoSpin

\* the steps of the goroutine that do not wait for the ticker
SpinnerStep == SpinnerStarts \/ SpinnerClears

\* the steps of a caller inside stop()
StopStep(c) == CloseDone(c) \/ WaitReturns(c) \/ OnceReleases(c)

NextSpinner ==
    \/ StartSpinner
    \/ SpinnerStarts
    \/ TickerTicks
    \/ SpinnerRenders
    \/ SpinnerClears
    \/ \E c \in Stoppers : CallStop(c)
    \/ \E c \in Stoppers : CloseDone(c)
    \/ \E c \in Stoppers : WaitReturns(c)
    \/ \E c \in Stoppers : OnceReleases(c)

\* the Go scheduler runs every goroutine that can run
SpecSpinner ==
    /\ InitSpinner
    /\ [][NextSpinner]_vars
    /\ WF_vars(SpinnerStep)
    /\ \A c \in Stoppers : WF_vars(StopStep(c))

\* runs of `ask provider set`, `add` and `remove`, one after the other, on
\* a machine with no config.json yet
InitProviders ==
    /\ opts = [APIKey |-> <<>>, BaseURL |-> "BASE", Headers |-> NoHeaders]
    /\ client = NoClient
    /\ pc = "idle"
    /\ op = "none"
    /\ req = NoRequest
    /\ sent = <<>>
    /\ recv = <<>>
    /\ inflight = 0
    /\ result = NoResult
    /\ calls = IdleCalls
    /\ lookup = NoLookup
    /\ cli = NoRun
    /\ conf = NoConf
    /\ timed = NoTimed
    /\ reply = NoReply
    /\ spin = NoSpin

NextProviders ==
    \/ ProviderSet
    \/ ProviderAdd
    \/ ProviderRemove

SpecProviders == InitProviders /\ [][NextProviders]_vars

----------------------------------------------------------------------------
(* Vocabulary of the properties *)

Blank(s) == \A i \in 1..Len(s) : s[i] \in Whitespace

Trimmed(s) == s = <<>> \/ (s[1] \notin Whitespace /\ s[Len(s)] \notin Whitespace)

\* s without its leading and trailing whitespace
Strip(s) ==
    IF Blank(s) THEN <<>>
    ELSE LET first == CHOOSE i \in 1..Len(s) :
                          s[i] \notin Whitespace /\ \A j \in 1..(i - 1) : s[j] \in Whitespace
             last  == CHOOSE i \in 1..Len(s) :
                          s[i] \notin Whitespace /\ \A j \in (i + 1)..Len(s) : s[j] \in Whitespace
         IN  SubSeq(s, first, last)

\* s without one leading "models/"
StripPrefixOnce(s) == IF s # <<>> /\ s[1] = PFX THEN SubSeq(s, 2, Len(s)) ELSE s

\* the clients that require an API key
KeyRequired(c) ==
    \/ c.kind \in {"anthropic", "gemini"}
    \/ c.kind = "openai_compatible" /\ c.requireAPIKey

\* the error text carries the format-unsupported signature, in any letter case
Signature(err) ==
    \E i \in 1..Len(err) :
        LowerChar(err[i]) \in {"response_format", "responsemimetype", "response_mime_type"}

RequestInvalid == Blank(req.Model) \/ Blank(req.Question)

\* the error the k-th HTTP attempt of the current call ended with
AttemptErr(k) == doJSON(recv[k]).err

HasFormat(h) == "response_format" \in DOMAIN h.body

----------------------------------------------------------------------------
(* C1 *)

\* C1: on every client, an Ask whose Model or Question is empty after trimming
\* returns a validation error and issues no HTTP request, whatever the API key
\* and the other request fields are.
C1_BlankRequestFailsValidation ==
    (op = "Ask" /\ RequestInvalid) =>
        /\ pc = "done"
        /\ ErrKind(result.err) = "validation"
        /\ result.text = <<>>
        /\ sent = <<>>
        /\ inflight = 0

\* a whitespace-only question asked on a key-requiring client that has no key
C1_Witness ==
    /\ op = "Ask"
    /\ pc = "done"
    /\ client.kind = "gemini"
    /\ client.apiKey = <<>>
    /\ ~Blank(req.Model)
    /\ req.Question = <<SP>>
    /\ req.ExpectJSON
    /\ result.err = <<"question is required">>
    /\ sent = <<>>

----------------------------------------------------------------------------
(* C2 *)

\* a client that requires no key never fails for a missing key
C2_KeylessNeverFailsForKey ==
    (~KeyRequired(client) /\ pc = "done") => ErrKind(result.err) # "configuration"

\* C2 as claimed: on every client that requires an API key, ListModels and Ask
\* called with a key that is empty after trimming return a configuration error
\* and issue no HTTP request; a client that requires no key never fails for a
\* missing key.
C2_Original ==
    /\ (op # "none" /\ KeyRequired(client) /\ Blank(opts.APIKey)) =>
            /\ pc = "done"
            /\ ErrKind(result.err) = "configuration"
            /\ sent = <<>>
    /\ C2_KeylessNeverFailsForKey

\* C2 amended: on every client that requires an API key, ListModels, and Ask
\* with a request that passes validation, called with a key that is empty
\* after trimming return a configuration error; Ask with a Model or Question
\* that is empty after trimming returns the validation error instead; in both
\* cases no HTTP request is issued.  A client that requires no key never fails
\* for a missing key.
C2_MissingKeyFailsBeforeIO ==
    /\ (op # "none" /\ KeyRequired(client) /\ Blank(opts.APIKey)) =>
            /\ pc = "done"
            /\ sent = <<>>
            /\ inflight = 0
            /\ ErrKind(result.err) =
                   IF op = "Ask" /\ RequestInvalid THEN "validation" ELSE "configuration"
    /\ C2_KeylessNeverFailsForKey

\* a valid Ask on a custom provider that requires a key and was given a
\* whitespace-only key
C2_Witness ==
    /\ op = "Ask"
    /\ pc = "done"
    /\ client.kind = "openai_compatible"
    /\ client.name = Proxy
    /\ client.requireAPIKey
    /\ opts.APIKey = <<SP>>
    /\ ~RequestInvalid
    /\ result.err = <<"API key not configured for ">> \o Proxy
    /\ sent = <<>>

----------------------------------------------------------------------------
(* C3 *)

OpenAIAsking == client.kind = "openai_compatible" /\ op = "Ask"

\* h2 repeats h1 (same endpoint, model, messages, temperature) with no
\* response_format
RepeatsWithoutFormat(h1, h2) ==
    /\ h2.method = h1.method
    /\ h2.url = h1.url
    /\ h2.headers = h1.headers
    /\ DOMAIN h2.body = {"model", "messages", "temperature"}
    /\ h2.body.model = h1.body.model
    /\ h2.body.messages = h1.body.messages
    /\ h2.body.temperature = h1.body.temperature

\* the reply carries a first choice whose content is a string, or a list with
\* at least one object fragment of non-blank text
HasChoiceContent(out) ==
    /\ Len(out.choices) >= 1
    /\ \/ out.choices[1].type = "string"
       \/ /\ out.choices[1].type = "list"
          /\ \E k \in 1..Len(out.choices[1].list) :
                out.choices[1].list[k].obj /\ ~Blank(out.choices[1].list[k].text)

\* C3: OpenAI-compatible Ask with ExpectJSON: the first request carries
\* response_format {type: json_object}; if that attempt fails with an error
\* whose text carries the signature (response_format, responsemimetype or
\* response_mime_type, in any letter case), exactly one further request is
\* sent, with the same model, messages and temperature and no response_format,
\* and if that request succeeds (it returns a completion with content) Ask
\* succeeds after exactly two HTTP calls.  Without ExpectJSON no request
\* carries response_format and no retry is made.
C3_FormatFallback ==
    OpenAIAsking =>
        /\ Len(sent) <= 2
        /\ Len(sent) >= 1 =>
                /\ HasFormat(sent[1]) <=> req.ExpectJSON
                /\ req.ExpectJSON =>
                        sent[1].body.response_format = [type |-> "json_object"]
        /\ (Len(recv) >= 1 /\ req.ExpectJSON /\ Signature(AttemptErr(1))) =>
                /\ Len(sent) = 2
                /\ RepeatsWithoutFormat(sent[1], sent[2])
        /\ (Len(recv) = 2 /\ AttemptErr(2) = NoErr
                /\ HasChoiceContent(doJSON(recv[2]).out)) =>
                /\ pc = "done"
                /\ result.err = NoErr
                /\ Len(sent) = 2
        /\ ~req.ExpectJSON =>
                /\ Len(sent) <= 1
                /\ \A k \in 1..Len(sent) : ~HasFormat(sent[k])

\* the provider rejects response_format in capitals-free text with status 400,
\* then answers the retry: Ask succeeded after two calls
C3_Witness ==
    /\ OpenAIAsking
    /\ pc = "done"
    /\ req.ExpectJSON
    /\ Len(sent) = 2
    /\ Len(recv) = 2
    /\ recv[1].status = 400
    /\ recv[1].text = <<"response_format">>
    /\ HasFormat(sent[1])
    /\ ~HasFormat(sent[2])
    /\ result.err = NoErr
    /\ result.text = <<"a">>

----------------------------------------------------------------------------
(* C4 *)

\* the exchange completed with a status below 400 and a body that decoded
\* (or was blank), yet carries no choice, no candidate or no usable text part
YieldsNoText(c, o) ==
    /\ ~o.net
    /\ o.status < 400
    /\ o.json \/ Blank(o.text)
    /\ CASE c.kind = "openai_compatible" ->
                \/ Len(o.val.choices) = 0
                \/ /\ o.val.choices[1].type = "list"
                   /\ \A k \in 1..Len(o.val.choices[1].list) :
                        \/ ~o.val.choices[1].list[k].obj
                        \/ Blank(o.val.choices[1].list[k].text)
         [] c.kind = "gemini" ->
                \/ Len(o.val.candidates) = 0
                \/ \A k \in 1..Len(o.val.candidates[1].parts) :
                        Blank(o.val.candidates[1].parts[k].text)
         [] c.kind = "anthropic" ->
                \A k \in 1..Len(o.val.content) :
                    o.val.content[k].type # "text" \/ Blank(o.val.content[k].text)
         [] OTHER -> Blank(o.val.message.content)

----------------------------------------------------------------------------
(* C5 *)

GeminiAsking == client.kind = "gemini" /\ op = "Ask"

\* C5: Gemini Ask: when the first call fails, ExpectJSON is set and the error
\* text carries the format-unsupported signature, exactly one retry is sent to
\* the same endpoint, with the systemInstruction and contents of the first
\* request and generationConfig {temperature: 0.2} only; when ExpectJSON is
\* not set or the error does not match, no retry is sent and the first error
\* is returned.
C5_GeminiFallback ==
    GeminiAsking =>
        /\ Len(sent) <= 2
        /\ (Len(recv) >= 1 /\ AttemptErr(1) # NoErr
                /\ req.ExpectJSON /\ Signature(AttemptErr(1))) =>
                /\ Len(sent) = 2
                /\ sent[2].method = sent[1].method
                /\ sent[2].url = sent[1].url
                /\ DOMAIN sent[2].body =
                       {"systemInstruction", "contents", "generationConfig"}
                /\ sent[2].body.systemInstruction = sent[1].body.systemInstruction
                /\ sent[2].body.contents = sent[1].body.contents
                /\ sent[2].body.generationConfig = [temperature |-> "0.2"]
                /\ sent[1].body.generationConfig =
                       [temperature |-> "0.2", responseMimeType |-> "application/json"]
        /\ (Len(recv) >= 1 /\ AttemptErr(1) # NoErr
                /\ ~(req.ExpectJSON /\ Signature(AttemptErr(1)))) =>
                /\ pc = "done"
                /\ Len(sent) = 1
                /\ result.err = AttemptErr(1)
                /\ result.text = <<>>

\* the provider rejects responseMimeType with status 400, the retry is sent
C5_Witness ==
    /\ GeminiAsking
    /\ req.ExpectJSON
    /\ Len(recv) >= 1
    /\ recv[1].status = 400
    /\ recv[1].text = <<"responseMimeType">>
    /\ Len(sent) = 2
    /\ "responseMimeType" \notin DOMAIN sent[2].body.generationConfig

----------------------------------------------------------------------------
(* C6 *)

\* the reply the call's last exchange decoded
LastOut == doJSON(recv[Len(recv)]).out

\* the provider's reply carries no content, or only blank content
ContentAbsentOrBlank ==
    /\ Len(recv) >= 1
    /\ AttemptErr(Len(recv)) = NoErr
    /\ \/ YieldsNoText(client, recv[Len(recv)])
       \/ /\ client.kind = "openai_compatible"
          /\ Len(LastOut.choices) >= 1
          /\ \/ LastOut.choices[1].type = "null"
             \/ LastOut.choices[1].type = "string" /\ Blank(LastOut.choices[1].str)

\* C6: on every client and for every provider response, an Ask that returns
\* without error returns a non-empty Text; a response whose content is absent,
\* empty or whitespace-only (an OpenAI-compatible content that is an empty or
\* whitespace-only string included) makes Ask return an error.
C6_SuccessHasText ==
    (op = "Ask" /\ pc = "done") =>
        /\ result.err = NoErr => result.text # <<>>
        /\ ContentAbsentOrBlank => result.err # NoErr

----------------------------------------------------------------------------
(* C7 *)

\* C7: on every client, the Text of a successful Ask has no leading and no
\* trailing whitespace, whatever whitespace the provider put around the content.
C7_TextTrimmed ==
    (op = "Ask" /\ pc = "done" /\ result.err = NoErr) => Trimmed(result.text)

----------------------------------------------------------------------------
(* C8 *)

Listed == op = "ListModels" /\ pc = "done" /\ result.err = NoErr

\* the catalog the provider returned to ListModels
Catalog == doJSON(recv[1]).out.catalog

\* the ID the client derives from a catalog entry
EntryID(c, e) ==
    IF c.kind = "gemini" THEN StripPrefixOnce(Strip(e.name)) ELSE Strip(e.name)

\* C8: on every client and for every catalog, a successful ListModels result
\* is sorted ascending by ID and has no entry with an empty ID (entries whose
\* id or name is empty or whitespace-only are dropped), and every DisplayName
\* is non-empty, being the ID when the provider supplies none.
C8_ModelsSortedAndNamed ==
    Listed =>
        /\ \A i, j \in 1..Len(result.models) :
                i < j => ~StrLess(result.models[j].ID, result.models[i].ID)
        /\ \A i \in 1..Len(result.models) :
                /\ ~Blank(result.models[i].ID)
                /\ result.models[i].DisplayName # <<>>
                /\ \E k \in 1..Len(Catalog) :
                        /\ EntryID(client, Catalog[k]) = result.models[i].ID
                        /\ Catalog[k].display = <<>> =>
                               result.models[i].DisplayName = result.models[i].ID
        /\ Cardinality({k \in 1..Len(Catalog) : Blank(Catalog[k].name)})
               <= Len(Catalog) - Len(result.models)

\* the provider listed "y" (padded, unnamed) before "x": the result is x, y
C8_Witness ==
    /\ Listed
    /\ client.kind = "anthropic"
    /\ Len(Catalog) = 2
    /\ Catalog[1].name = <<SP, "y">>
    /\ Catalog[1].display = <<>>
    /\ Catalog[2].name = <<"x">>
    /\ Len(result.models) = 2
    /\ result.models[1].ID = <<"x">>
    /\ result.models[2] = [ID |-> <<"y">>, DisplayName |-> <<"y">>]

----------------------------------------------------------------------------
(* C9 *)

\* some supported method is generateContent, letter case and surrounding
\* whitespace aside
ListsGenerateContent(e) ==
    \E k \in 1..Len(e.methods) :
        LET m == Strip(e.methods[k])
        IN  Len(m) = 1 /\ LowerChar(m[1]) = "generatecontent"

\* the catalog positions ListModels has to return
Eligible ==
    {k \in 1..Len(Catalog) :
        ListsGenerateContent(Catalog[k]) /\ EntryID(client, Catalog[k]) # <<>>}

\* C9: Gemini ListModels returns exactly the catalog entries whose
\* supportedGenerationMethods contains generateContent, compared
\* case-insensitively, and whose id is non-empty: an entry lacking that method
\* never appears, and each returned ID is the entry's name with a leading
\* "models/" stripped.
C9_GeminiListsGenerateContentOnly ==
    (Listed /\ client.kind = "gemini") =>
        /\ Len(result.models) = Cardinality(Eligible)
        /\ \A id \in {EntryID(client, Catalog[k]) : k \in 1..Len(Catalog)}
                    \cup {result.models[i].ID : i \in 1..Len(result.models)} :
                Cardinality({i \in 1..Len(result.models) : result.models[i].ID = id})
                    = Cardinality({k \in Eligible : EntryID(client, Catalog[k]) = id})

\* an embedding-only entry and a generateContent entry in capitals: only the
\* second is returned, without its "models/" prefix
C9_Witness ==
    /\ Listed
    /\ client.kind = "gemini"
    /\ Len(Catalog) = 2
    /\ Catalog[1].methods = << <<"embedContent">> >>
    /\ Catalog[1].name = <<"x">>
    /\ Catalog[2].methods = << <<"embedContent">>, <<SP, "GENERATECONTENT">> >>
    /\ Catalog[2].name = <<PFX, "x">>
    /\ Len(result.models) = 1
    /\ result.models[1].ID = <<"x">>

----------------------------------------------------------------------------
(* C10 *)

\* the endpoint of a Gemini Ask for the model m
GenerateContentURL(c, m) ==
    c.base \o <<"/models/">> \o StripPrefixOnce(Strip(m)) \o <<":generateContent">>

\* every request of a Gemini Ask goes to <base>/models/X:generateContent, X
\* being the model without one leading "models/", and an Ask that passes all
\* checks sends one
C10_Routing ==
    /\ \A k \in 1..Len(sent) : sent[k].url = GenerateContentURL(client, req.Model)
    /\ (client.apiKey # <<>> /\ ~Blank(req.Question)
            /\ StripPrefixOnce(Strip(req.Model)) # <<>>) => Len(sent) >= 1

\* C10 as claimed: Gemini Ask strips a leading "models/" from the model id
\* exactly once: "models/X" and "X" are both sent to
\* <base>/models/X:generateContent, and a model that is empty after stripping
\* fails with a validation error before any HTTP request.
C10_Original ==
    GeminiAsking =>
        /\ C10_Routing
        /\ StripPrefixOnce(Strip(req.Model)) = <<>> =>
                /\ pc = "done"
                /\ sent = <<>>
                /\ ErrKind(result.err) = "validation"

\* C10 amended: Gemini Ask strips a leading "models/" from the model id
\* exactly once: "models/X" and "X" are both sent to
\* <base>/models/X:generateContent, and a model that is empty after stripping
\* fails before any HTTP request: with a validation error, except that a
\* client without an API key asked a non-blank question for a model that is
\* non-blank before stripping fails with the configuration error, its key
\* check coming before the stripping.
C10_GeminiModelNormalized ==
    GeminiAsking =>
        /\ C10_Routing
        /\ StripPrefixOnce(Strip(req.Model)) = <<>> =>
                /\ pc = "done"
                /\ sent = <<>>
                /\ ErrKind(result.err) =
                       IF client.apiKey = <<>> /\ ~RequestInvalid
                       THEN "configuration" ELSE "validation"

\* a client with a key asked for the model "models/": validation error, no I/O
C10_Witness ==
    /\ GeminiAsking
    /\ pc = "done"
    /\ client.apiKey # <<>>
    /\ req.Model = <<PFX>>
    /\ req.Question = <<"q">>
    /\ result.err = <<"model is required">>
    /\ sent = <<>>

----------------------------------------------------------------------------
(* C11 *)

\* the reply an OpenAI-compatible Ask extracted its content from: the last
\* attempt decoded a completion with at least one choice
Extracted ==
    /\ OpenAIAsking
    /\ pc = "done"
    /\ Len(recv) >= 1
    /\ AttemptErr(Len(recv)) = NoErr
    /\ Len(LastOut.choices) >= 1

\* choices[0].message.content of that reply
ChoiceContent == LastOut.choices[1]

\* the texts of the usable fragments of a list content, in their order: the
\* objects whose text is not blank
RECURSIVE UsableTexts(_)
UsableTexts(l) ==
    IF l = <<>> THEN <<>>
    ELSE LET rest == UsableTexts(SubSeq(l, 2, Len(l)))
         IN  IF l[1].obj /\ ~Blank(l[1].text) THEN <<l[1].text>> \o rest ELSE rest

\* the texts ts put one per line
RECURSIVE Lines(_)
Lines(ts) ==
    IF Len(ts) = 0 THEN <<>>
    ELSE IF Len(ts) = 1 THEN ts[1]
    ELSE Lines(SubSeq(ts, 1, Len(ts) - 1)) \o <<NL>> \o ts[Len(ts)]

\* C11 as claimed: a string content is returned trimmed; a list content
\* returns the fragments whose trimmed text is non-empty, joined with a
\* newline in their original order; a list with no usable fragment is an
\* error; any other shape (a missing or null content included) is an error.
C11_Original ==
    Extracted =>
        CASE ChoiceContent.type = "string" ->
                result = OkText(Strip(ChoiceContent.str))
          [] ChoiceContent.type = "list" ->
                IF UsableTexts(ChoiceContent.list) = <<>>
                THEN result.err # NoErr
                ELSE result = OkText(Lines(UsableTexts(ChoiceContent.list)))
          [] OTHER -> result.err # NoErr

\* C11 amended: a string content is returned trimmed; a list content returns
\* the fragments whose trimmed text is non-empty, joined with a newline in
\* their original order, the joined text then trimmed of surrounding
\* whitespace; a list with no usable fragment is an error; any other shape (a
\* missing or null content included) is an error.
C11_ContentExtraction ==
    Extracted =>
        CASE ChoiceContent.type = "string" ->
                result = OkText(Strip(ChoiceContent.str))
          [] ChoiceContent.type = "list" ->
                IF UsableTexts(ChoiceContent.list) = <<>>
                THEN result.err # NoErr
                ELSE result = OkText(Strip(Lines(UsableTexts(ChoiceContent.list))))
          [] OTHER -> result.err # NoErr

\* a list of two fragments with whitespace around them: the joined text keeps
\* the inner newline and loses the outer whitespace
C11_Witness ==
    /\ Extracted
    /\ ChoiceContent.type = "list"
    /\ ChoiceContent.list = <<[obj |-> TRUE, text |-> <<SP, "a">>],
                              [obj |-> TRUE, text |-> <<"a", NL>>]>>
    /\ result = OkText(<<"a", NL, "a">>)

----------------------------------------------------------------------------
(* C12 *)

\* the k-th HTTP exchange of the current call ended with a response whose
\* status is outside 200..299
NonSuccessStatus(k) == ~recv[k].net /\ recv[k].status \notin 200..299

\* the first n bytes' worth of characters of s occur in order at the end of msg,
\* followed by the "..." mark when s is longer than n bytes
CarriesBody(msg, s, n) ==
    LET shown == IF StrBytes(s) <= n THEN s ELSE Prefix(s, n) \o <<"...">>
    IN  /\ Len(msg) >= Len(shown)
        /\ SubSeq(msg, Len(msg) - Len(shown) + 1, Len(msg)) = shown

\* the current call ended with the error of its k-th exchange, or repeated the
\* request because of it
FailedBy(k) ==
    \/ Len(sent) > k
    \/ pc = "done" /\ result.err = AttemptErr(k)

\* C12: every provider call whose HTTP response has a non-2xx status fails
\* with a transport error whose message includes the response body truncated
\* to the 700-byte cap; only a 2xx response is decoded as a success.
C12_NonSuccessStatusFails ==
    \A k \in 1..Len(recv) :
        /\ NonSuccessStatus(k) =>
                /\ ErrKind(AttemptErr(k)) = "transport"
                /\ CarriesBody(AttemptErr(k), recv[k].text, TruncateCap)
                /\ FailedBy(k)
        /\ (pc = "done" /\ k = Len(recv) /\ result.err = NoErr) =>
                recv[k].status \in 200..299

----------------------------------------------------------------------------
(* C13 *)

\* the header h carries the name n (in its canonical spelling) with the value v
Carries(h, n, v) ==
    /\ CanonicalMIMEHeaderKey(n) \in DOMAIN h
    /\ h[CanonicalMIMEHeaderKey(n)] = v

\* C13: every ListModels and Ask request of an OpenAI-compatible client
\* constructed with a non-empty API key carries the header <authHeader> with
\* the value <authPrefix><key> (by default Authorization and "Bearer "), also
\* for a custom provider whose key is optional; a client constructed with no
\* key sends no auth header.
C13_AuthHeaderOnWire ==
    client.kind = "openai_compatible" =>
        \A k \in 1..Len(sent) :
            IF Blank(opts.APIKey)
            THEN CanonicalMIMEHeaderKey(client.authHeader) \notin DOMAIN sent[k].headers
            ELSE Carries(sent[k].headers, client.authHeader,
                         client.authPrefix \o Strip(opts.APIKey))

----------------------------------------------------------------------------
(* C14 *)

\* C14: every request the Anthropic client sends (ListModels and Ask) carries
\* x-api-key: <key> and the fixed header anthropic-version: 2023-06-01,
\* whatever ClientOptions.Headers the client was constructed with.
C14_AnthropicHeadersFixed ==
    client.kind = "anthropic" =>
        \A k \in 1..Len(sent) :
            /\ Carries(sent[k].headers, <<"x-api-key">>, Strip(opts.APIKey))
            /\ Carries(sent[k].headers, <<"anthropic-version">>, <<"2023-06-01">>)

----------------------------------------------------------------------------
(* C15 *)

\* the header names an adapter sets by itself
OwnHeaders(c) ==
    CASE c.kind = "openai_compatible" -> {CanonicalMIMEHeaderKey(c.authHeader)}
      [] c.kind = "anthropic"         -> {<<"X-Api-Key">>, <<"Anthropic-Version">>}
      [] c.kind = "gemini"            -> {<<"X-Goog-Api-Key">>}
      [] OTHER                        -> {}

\* the headers the client was constructed with (Ollama keeps none)
BuiltHeaders(c) == IF c.kind = "ollama" THEN NoHeaders ELSE c.headers

\* the request headers h carry every usable header the client was constructed
\* with, and besides the adapter's own headers nothing else
CarriesBuiltHeaders(c, h) ==
    /\ \A k \in DOMAIN BuiltHeaders(c) :
            (~Blank(k) /\ ~Blank(BuiltHeaders(c)[k])) => Carries(h, k, BuiltHeaders(c)[k])
    /\ \A n \in DOMAIN h :
            \/ n \in OwnHeaders(c)
            \/ \E k \in DOMAIN BuiltHeaders(c) :
                    CanonicalMIMEHeaderKey(k) = n /\ h[n] = BuiltHeaders(c)[k]

\* two calls of the same operation with the same request
SameCall(a, b) == a.op # "none" /\ a.op = b.op /\ a.req = b.req

\* what the calls in progress show of a stateless client: every request
\* carries the headers of construction time, two calls of the same operation
\* and request send the same requests, and return the same result when the
\* provider answered them the same
StatelessCalls ==
    /\ \A p \in Callers : \A k \in 1..Len(calls[p].sent) :
            CarriesBuiltHeaders(client, calls[p].sent[k].headers)
    /\ \A p, q \in Callers :
            SameCall(calls[p], calls[q]) =>
                /\ \A k \in 1..Len(calls[p].sent) :
                        k <= Len(calls[q].sent) => calls[p].sent[k] = calls[q].sent[k]
                /\ (calls[p].pc = "done" /\ calls[q].pc = "done"
                        /\ calls[p].recv = calls[q].recv) =>
                        calls[p].result = calls[q].result

\* C15: a provider client is stateless between calls: no field of the client
\* changes after construction under any interleaving of concurrent ListModels
\* and Ask calls on a shared instance, changing the caller's
\* ClientOptions.Headers map after construction does not change what the
\* client sends, and the outcome of each call depends only on its own request
\* and the provider's response to it.
C15_StatelessClient ==
    /\ [][client' = client]_vars
    /\ [](StatelessCalls)

\* the caller changed its Headers map while two Asks of the same request were
\* in progress on the shared Anthropic client: one has returned, the other is
\* waiting, and both sent the header of construction time
C15_Witness ==
    /\ client.kind = "anthropic"
    /\ client.headers = [k \in {<<"anthropic-version">>} |-> <<"2024-10-22">>]
    /\ opts.Headers = NoHeaders
    /\ SameCall(calls[1], calls[2])
    /\ calls[1].op = "Ask"
    /\ calls[1].pc = "done"
    /\ calls[1].result = OkText(<<"a">>)
    /\ calls[2].pc = "wait1"
    /\ calls[2].sent = calls[1].sent

----------------------------------------------------------------------------
(* C16 *)

\* C16: if the caller's context is cancelled or times out while an HTTP call
\* of ListModels or Ask is in flight, that call is aborted and the adapter
\* method returns an error (never a success) without completing any further
\* HTTP exchange, the format-fallback retry included.
C16_CancellationAborts ==
    \A p \in Callers :
        calls[p].abortedAt > 0 =>
            /\ \A k \in calls[p].abortedAt..Len(calls[p].recv) : calls[p].recv[k].net
            /\ calls[p].pc = "done" => calls[p].result.err # NoErr
            /\ calls[p].pc = "done" => Len(calls[p].recv) >= calls[p].abortedAt

\* a Gemini Ask for a model named response_format was cancelled during its
\* first exchange: the error text names the URL, so the fallback retry was
\* attempted, was aborted too, and Ask returned the error
C16_Witness ==
    /\ client.kind = "gemini"
    /\ calls[1].op = "Ask"
    /\ calls[1].abortedAt = 1
    /\ calls[1].pc = "done"
    /\ Len(calls[1].sent) = 2
    /\ calls[1].recv[1].net
    /\ calls[1].recv[2].net
    /\ ErrKind(calls[1].result.err) = "transport"

----------------------------------------------------------------------------
(* C17 *)

\* the five built-in provider names
BuiltIn == {Anthropic, Gemini, Ollama, OpenAI, OpenRouter}

\* the name trimmed and lower-cased
Normalized(name) == [i \in 1..Len(Strip(name)) |-> LowerChar(Strip(name)[i])]

\* C17: SupportedProviders() returns exactly [anthropic, gemini, ollama,
\* openai, openrouter] in ascending order; New(name, opts) succeeds exactly
\* when name, trimmed and lower-cased, is one of those five, and the client it
\* returns has Name() equal to that normalized name; an empty name and any
\* other name return an error and no client.
C17_Registry ==
    /\ SupportedProviders = <<Anthropic, Gemini, Ollama, OpenAI, OpenRouter>>
    /\ \A i \in 1..(Len(SupportedProviders) - 1) :
            StrLess(SupportedProviders[i], SupportedProviders[i + 1])
    /\ lookup.called =>
            IF Normalized(lookup.name) \in BuiltIn
            THEN /\ lookup.err = NoErr
                 /\ lookup.client # NoClient
                 /\ Name(lookup.client) = Normalized(lookup.name)
            ELSE /\ lookup.err # NoErr
                 /\ lookup.client = NoClient

\* " OpenAI" resolved to the client named openai
C17_Witness ==
    /\ lookup.called
    /\ lookup.name = <<SP, "O", "p", "e", "n", "A", "I">>
    /\ lookup.err = NoErr
    /\ Name(lookup.client) = OpenAI


----------------------------------------------------------------------------
(* C18: the suggested command runs only on Enter *)

\* the processes the run has started
Started == {cli.procs[i] : i \in 1..Len(cli.procs)}

\* a process that runs a command line in the shell: exec.Command(shell, "-lc", input)
IsShellRun(proc) == Len(proc.args) = 2 /\ proc.args[1] = <<"-lc">>

\* a clipboard program of some platform, started with its fixed arguments and
\* given the command on its standard input only
IsClipboardCopy(proc) ==
    /\ \E goos \in GOOS : \E i \in 1..Len(clipboardCommands(goos)) :
            /\ proc.name = clipboardCommands(goos)[i].name
            /\ proc.args = clipboardCommands(goos)[i].args
    /\ proc.stdin = cli.prefill

\* C18: a command is run in the shell only when the user pressed Enter in the
\* prompt prefilled with a command of the response, in a run without --no-run
\* and without --json; after Ctrl+C the only processes started are clipboard
\* programs that read the command on their standard input, and after Ctrl+D,
\* with --no-run, with --json and for a response without a command no
\* process is started at all.
C18_CommandRunsOnlyOnEnter ==
    /\ \A proc \in Started :
            IsShellRun(proc) =>
                /\ cli.key = "enter"
                /\ ~cli.opts.NoRun
                /\ ~cli.opts.AsJSON
                /\ HasCommand(cli.parsed)
                /\ cli.prefill = TrimSpace(cli.parsed.Command)
    /\ \A proc \in Started :
            ~IsShellRun(proc) => cli.key = "ctrl-c" /\ IsClipboardCopy(proc)
    /\ cli.key = "ctrl-c" => \A proc \in Started : ~IsShellRun(proc)
    /\ (\/ cli.key \in {"ctrl-d", "error", "none"}
        \/ cli.opts.NoRun
        \/ cli.opts.AsJSON
        \/ (cli.stage = "done" /\ ~HasCommand(cli.parsed))) => Started = {}

\* the user pressed Ctrl+C on a suggested command, which went to a clipboard
\* program and not to the shell
C18_Witness ==
    /\ cli.stage = "done"
    /\ cli.key = "ctrl-c"
    /\ cli.prefill = <<"l", "s">>
    /\ cli.procs # <<>>
    /\ \A proc \in Started : proc.stdin = <<"l", "s">>

----------------------------------------------------------------------------
(* C19: Enter runs the edited line *)

\* the command line the shell was started with
Ran == {p.args[2] : p \in {proc \in Started : IsShellRun(proc)}}

\* C19: when the user presses Enter, the shell is started with the line the
\* user left in the prompt, trimmed, and with nothing else.
C19_EditedLineIsRun ==
    cli.key = "enter" => Ran = {TrimSpace(cli.line)}

----------------------------------------------------------------------------
(* C20: a question that starts with a dash *)

\* the arguments are "--" followed by one argument that starts with a dash
DashQuestion ==
    /\ Len(cli.args) = 2
    /\ cli.args[1] = DashDash
    /\ HasPrefix(cli.args[2], Dash)

\* C20: on the arguments "--" q with q starting with a dash, Run (once the
\* configuration is loaded) asks the question q: q is not read as an option,
\* a subcommand or a request for help, and no unknown-option error results.
C20_DashQuestionIsAsked ==
    (cli.stage # "none" /\ cli.loaded /\ DashQuestion) =>
        /\ cli.to = "ask"
        /\ cli.question = TrimSpace(cli.args[2])
        /\ ~HasPrefix(cli.err, <<"unknown option ">>)

----------------------------------------------------------------------------
(* C21: the order in which ResolveAPIKey looks for the key *)

\* the provider the last operation named, as the config package spells it
ConfProvider == ToLower(TrimSpace(conf.name))

\* the entry of that provider before the operation: the custom provider of
\* that name when there is one, the entry of Providers otherwise
ConfEntry ==
    IF ConfProvider \in DOMAIN conf.before.CustomProviders
    THEN conf.before.CustomProviders[ConfProvider]
    ELSE MapGet(conf.before.Providers, ConfProvider, NoProviderConfig)

\* the value the environment gives the variable name, without the
\* whitespace around it; empty when the variable is unset or blank
EnvValue(name) ==
    IF TrimSpace(name) \in DOMAIN conf.env
    THEN TrimSpace(conf.env[TrimSpace(name)]) ELSE <<>>

\* the value of the default variable of a built-in provider
DefaultEnvValue ==
    IF ConfProvider \in DOMAIN conf.before.CustomProviders
            \/ ConfProvider \notin DOMAIN builtinProviders
    THEN <<>>
    ELSE EnvValue(builtinProviders[ConfProvider].APIKeyEnv)

\* C21: for a built-in or custom provider, ResolveAPIKey returns the value
\* (trimmed, not blank) of the environment variable named by api_key_env
\* when it has one, else that of the default variable of a built-in
\* provider when it has one, and the stored api_key only when neither has;
\* the configuration is the same afterwards.
C21_ResolveOrder ==
    (conf.op = "ResolveAPIKey"
        /\ (ConfProvider \in DOMAIN conf.before.CustomProviders
                \/ ConfProvider \in DOMAIN builtinProviders)) =>
        /\ conf.cfg = conf.before
        /\ EnvValue(ConfEntry.APIKeyEnv) # <<>> =>
                conf.key = EnvValue(ConfEntry.APIKeyEnv)
        /\ (EnvValue(ConfEntry.APIKeyEnv) = <<>> /\ DefaultEnvValue # <<>>) =>
                conf.key = DefaultEnvValue
        /\ (EnvValue(ConfEntry.APIKeyEnv) = <<>> /\ DefaultEnvValue = <<>>) =>
                conf.key = TrimSpace(ConfEntry.APIKey)

\* a key is stored for openai and OPENAI_API_KEY is set to another:
\* ResolveAPIKey returned the variable's value
C21_Witness ==
    /\ conf.op = "ResolveAPIKey"
    /\ ConfProvider = OpenAI
    /\ ConfEntry.APIKey = <<"k">>
    /\ conf.key = <<"d">>
    /\ conf.cfg.Providers[OpenAI].APIKey = <<"k">>

----------------------------------------------------------------------------
(* C22: --timeout is the request timeout of the Ask call *)

\* C22: with the timeout T of --timeout (90 seconds by default), the Ask
\* request is not aborted for a timeout before T seconds have passed since
\* the call started, and it does not go on once T seconds have passed.
C22_TimeoutIsRequestTimeout ==
    /\ timed.stage = "aborted" => timed.clock >= timed.timeout
    /\ timed.stage = "waiting" => timed.clock <= timed.timeout

----------------------------------------------------------------------------
(* C23: a saved configuration is loaded back *)

\* the providers a configuration knows: the built-in ones and every entry
ProvidersOf(c) ==
    DOMAIN builtinProviders \cup DOMAIN c.Providers \cup DOMAIN c.CustomProviders

\* the api_key stored for the provider p
StoredKey(c, p) ==
    IF p \in DOMAIN c.CustomProviders THEN c.CustomProviders[p].APIKey
    ELSE MapGet(c.Providers, p, NoProviderConfig).APIKey

\* config.json was written from conf.cfg and read back into conf.loaded
RoundTrip == conf.op = "Load" /\ conf.file.exists /\ conf.err = NoErr

\* C23: Load after Save gives a configuration with the same current
\* provider, the same model and the same stored api_key for every provider,
\* and the same RenderMarkdown as the configuration saved.
C23_SaveLoadRoundTrip ==
    RoundTrip =>
        /\ conf.loaded.CurrentProvider = conf.cfg.CurrentProvider
        /\ conf.loaded.RenderMarkdown = conf.cfg.RenderMarkdown
        /\ \A p \in ProvidersOf(conf.cfg) \cup ProvidersOf(conf.loaded) :
            /\ GetModel(conf.loaded, p) = GetModel(conf.cfg, p)
            /\ StoredKey(conf.loaded, p) = StoredKey(conf.cfg, p)

----------------------------------------------------------------------------
(* C24: adding and removing custom providers *)

\* what AddCustomProvider has to reject: an empty name, the name of a
\* built-in provider, an empty base URL
MustReject ==
    \/ ConfProvider = <<>>
    \/ ConfProvider \in DOMAIN builtinProviders
    \/ TrimSpace(conf.input.BaseURL) = <<>>

\* the field of the stored provider is the default when the input left it
\* empty, and the input's when the input gave one
Filled(field, default) ==
    LET given  == conf.input[field]
        stored == conf.cfg.CustomProviders[ConfProvider][field]
    IN  /\ given = <<>> => stored = default
        /\ TrimSpace(given) # <<>> => stored = given

\* C24: AddCustomProvider rejects an empty name, a built-in name and an
\* empty base URL with an error and leaves the configuration as it was;
\* otherwise it stores the provider under its lower-cased trimmed name with
\* the defaults /models, /chat/completions, Authorization and "Bearer " in
\* every one of these fields that was left unset. RemoveCustomProvider never
\* removes or changes a built-in provider.
C24_AddAndRemoveCustom ==
    /\ (conf.op = "AddCustomProvider" /\ MustReject) =>
            conf.err # NoErr /\ conf.cfg = conf.before
    /\ (conf.op = "AddCustomProvider" /\ ~MustReject) =>
            /\ conf.err = NoErr
            /\ DOMAIN conf.cfg.CustomProviders
                    = DOMAIN conf.before.CustomProviders \cup {ConfProvider}
            /\ Filled("ModelsPath", DefaultModelsPath)
            /\ Filled("ChatPath", DefaultChatPath)
            /\ Filled("AuthHeader", DefaultAuthHeader)
            /\ Filled("AuthPrefix", DefaultAuthPrefix)
    /\ conf.op = "RemoveCustomProvider" =>
            /\ conf.cfg.Providers = conf.before.Providers
            /\ DOMAIN builtinProviders \subseteq DOMAIN conf.cfg.Providers
            /\ ConfProvider \in DOMAIN builtinProviders =>
                    conf.err # NoErr /\ conf.cfg = conf.before

\* a provider typed " Mine" with only a base URL was stored as mine with the
\* default paths
C24_Witness ==
    /\ conf.op = "AddCustomProvider"
    /\ conf.name = <<SP, "M", "i", "n", "e">>
    /\ conf.input.ModelsPath = <<>>
    /\ conf.err = NoErr
    /\ Mine \in DOMAIN conf.cfg.CustomProviders
    /\ conf.cfg.CustomProviders[Mine].ModelsPath = DefaultModelsPath
    /\ conf.cfg.CustomProviders[Mine].AuthPrefix = DefaultAuthPrefix

----------------------------------------------------------------------------
(* C25: Parse finds the JSON object in a reply *)

\* the places of the reply where a JSON object with the keys answer and
\* command stands
ObjectsIn(text) == {i \in 1..Len(text) : text[i] \in DOMAIN JSONObjects}

\* the reply holds some JSON object: one with the two keys, or the empty one
HoldsObject(text) ==
    \/ ObjectsIn(text) # {}
    \/ \E i, j \in 1..Len(text) :
            i < j /\ text[i] = "{" /\ text[j] = "}"
                /\ \A k \in (i + 1)..(j - 1) : text[k] \in Whitespace

\* the first JSON object with the two keys that the reply holds
FirstObject(text) ==
    JSONObjects[text[CHOOSE i \in ObjectsIn(text) :
                        \A j \in ObjectsIn(text) : i <= j]]

\* C25: for every reply in which a JSON object with the keys answer and
\* command stands among other text, Parse returns the trimmed answer and
\* command of the first such object and no error; for an empty reply and
\* for a reply that holds no JSON object, Parse returns an error.
C25_ParseFindsObject ==
    reply.called =>
        /\ ObjectsIn(reply.text) # {} =>
                /\ reply.err = NoErr
                /\ reply.r = normalizeResponse(FirstObject(reply.text))
        /\ TrimSpace(reply.text) = <<>> => reply.err # NoErr
        /\ ~HoldsObject(reply.text) => reply.err # NoErr

----------------------------------------------------------------------------
(* C26: Ask returns the error of its last HTTP attempt *)

\* the first attempt failed in a way that Ask answers with the fallback
\* request: only the OpenAI-compatible and Gemini clients have one
FirstAttemptRetried ==
    /\ client.kind \in {"openai_compatible", "gemini"}
    /\ req.ExpectJSON
    /\ Signature(AttemptErr(1))

\* C26: Ask returns the error of the last HTTP attempt it made, as it is:
\* a failure of the first attempt that is not retried is returned after
\* exactly one request, a failure of the fallback request is returned in
\* place of the first one, and with every error the response returned is
\* the zero AskResponse.
C26_LastAttemptErrorReturned ==
    op = "Ask" =>
        /\ (Len(recv) >= 1 /\ AttemptErr(1) # NoErr /\ ~FirstAttemptRetried) =>
                /\ pc = "done"
                /\ Len(sent) = 1
                /\ result.err = AttemptErr(1)
        /\ (Len(recv) = 2 /\ AttemptErr(2) # NoErr) =>
                /\ pc = "done"
                /\ result.err = AttemptErr(2)
        /\ (pc = "done" /\ result.err # NoErr) => result.text = <<>>

\* the fallback request of an OpenAI-compatible client failed with another
\* error than the first request: Ask returned the second
C26_Witness ==
    /\ op = "Ask"
    /\ client.kind = "openai_compatible"
    /\ pc = "done"
    /\ Len(recv) = 2
    /\ AttemptErr(2) # NoErr
    /\ AttemptErr(2) # AttemptErr(1)
    /\ result.err = AttemptErr(2)
    /\ result.text = <<>>

----------------------------------------------------------------------------
(* C27: the spinner *)

\* what holds of the spinner in every state
SpinnerSafe ==
    /\ ~spin.enabled => spin.out = <<>>
    /\ ~spin.panicked
    /\ \A c \in Stoppers :
        (spin.enabled /\ spin.stop[c] = "returned") =>
            /\ spin.gpc = "exited"
            /\ spin.out # <<>>
            /\ spin.out[Len(spin.out)] = clearSequence(spin.label)
            /\ Len(spin.out[Len(spin.out)]) = Len(spin.label) + 6
            /\ Len(spin.out) = spin.outAtReturn[c]

\* C27: a disabled spinner writes nothing; for an enabled spinner, stop()
\* returns only after the goroutine has ended, the last bytes written are
\* "\r", len(label) + 4 spaces and "\r" (label being the label shown),
\* nothing is written after stop() has returned, and stop() called more than
\* once, also concurrently, never panics and always returns.
C27_Spinner ==
    /\ []SpinnerSafe
    /\ \A c \in Stoppers :
        (spin.stop[c] # "idle") ~> (spin.stop[c] = "returned")

\* two callers were in stop() at once, both returned, and the spinner had
\* rendered more than one frame before it cleared the line
C27_Witness ==
    /\ spin.enabled
    /\ \A c \in Stoppers : spin.stop[c] = "returned"
    /\ spin.outAtReturn["s1"] = spin.outAtReturn["s2"]
    /\ Len(spin.out) >= 3
    /\ spin.label = <<"h", "i">>
    /\ spin.out[Len(spin.out)] = <<"\r", SP, SP, SP, SP, SP, SP, "\r">>

----------------------------------------------------------------------------
(* C28: the current provider exists *)

\* the configuration the next run of `ask` starts with
Persisted == Load(conf.file).cfg

\* the current provider of the configuration c is empty or exists in c
CurrentExists(c) ==
    \/ c.CurrentProvider = <<>>
    \/ c.CurrentProvider \in DOMAIN builtinProviders
    \/ c.CurrentProvider \in DOMAIN c.CustomProviders

\* C28: after any sequence of `provider set`, `provider add` and `provider
\* remove` from the default configuration, the current provider is empty or
\* the name of an existing built-in or custom provider; removing the custom
\* provider that is current resets it to empty; a command that fails leaves
\* it as it was.
C28_CurrentProviderExists ==
    /\ CurrentExists(conf.cfg)
    /\ CurrentExists(Persisted)
    /\ (conf.op = "provider remove" /\ conf.err = NoErr
            /\ conf.before.CurrentProvider = ConfProvider) =>
            conf.cfg.CurrentProvider = <<>> /\ Persisted.CurrentProvider = <<>>
    /\ (conf.op \in {"provider set", "provider add", "provider remove"}
            /\ conf.err # NoErr) =>
            Persisted.CurrentProvider = conf.before.CurrentProvider

====
